---------------------------- MODULE Spec2Model ----------------------------
(***************************************************************************)
(* TheStreamic feed aggregator: the publish pipeline of fetch.py (collect, *)
(* deduplicate, balance, validate, back up, write atomically), the         *)
(* balance_categories variant of fetch.py.py, and the merge/archive run of *)
(* fetch_rss.py.                                                           *)
(*                                                                         *)
(* Abstractions: a pubDate / timestamp is a natural number ordered like    *)
(* the ISO-8601 string it stands for; a text value is one of a few strings *)
(* and strip() is given by its table on them; a file is a record saying    *)
(* whether the path exists, whether the document in it is complete, and    *)
(* which item list it holds.                                               *)
(***************************************************************************)
EXTENDS Integers, Sequences, FiniteSets, TLC

VARIABLES
    prog,               \* which program the behaviour is a run of
    pc,                 \* position of the run
    news,               \* data/news.json
    archive,            \* data/archive.json
    tmp,                \* data/news.tmp
    news0,              \* content of news.json when the run started
    archive0,           \* content of archive.json when the run started
    feed_idx,           \* position of main()'s loop over FEED_GROUPS
    all_items,          \* main(): all_items
    balanced_items,     \* main(): balanced_items
    validation_passed,  \* main(): validation_passed
    outcome,            \* how the run ended
    input,              \* argument of the function applied (SpecBalance)
    output,             \* fetch.py balance_categories(input)
    output2,            \* fetch.py.py balance_categories(input)[0]
    existing_news,      \* fetch_rss.py fetch_all_feeds(): existing_news
    fetched,            \* fetch_rss.py: the items parsed so far in this run
    clock,              \* fetch_rss.py: datetime.now(), in days
    runs,               \* fetch_rss.py: runs started so far
    fetch_log           \* main(): what each iteration of the feed loop did

vars == <<prog, pc, news, archive, tmp, news0, archive0, feed_idx, all_items,
          balanced_items, validation_passed, outcome, input, output, output2,
          existing_news, fetched, clock, runs,
          fetch_log>>

-----------------------------------------------------------------------------
(* Program constants of fetch.py / fetch.py.py *)

MAX_ITEMS_PER_FEED == 20
MAX_ARTICLE_FETCHES == 8
MIN_PER_CATEGORY == 18
MIN_REQUIRED_EACH == 3
MAX_NEWS_ITEMS == 300
MAX_ITEMS_PER_SOURCE == 8
MAX_ITEMS_LOW_PRIORITY == 3

(* Bounds of the model *)

MaxEntries == 3         \* entries in one fetched feed document
MaxFeedItems == 3       \* items in one document fetched by fetch_rss.py
MaxRuns == 2            \* runs of fetch_all_feeds in a behaviour
MaxLen == 3             \* items in a short input list of balance_categories
MaxCats == 17           \* categories of a bulk input list
MaxSrcs == 3            \* sources per category of a bulk input list
MaxPerSrc == 9          \* items per source of a bulk input list

-----------------------------------------------------------------------------
(* Sequence helpers *)

Min(a, b) == IF a < b THEN a ELSE b

MaxOf(S) == CHOOSE m \in S : \A x \in S : x <= m

Take(s, n) == SubSeq(s, 1, Min(n, Len(s)))

Range(s) == {s[i] : i \in 1..Len(s)}

RECURSIVE Flatten(_)
Flatten(ss) == IF ss = <<>> THEN <<>> ELSE Head(ss) \o Flatten(Tail(ss))

-----------------------------------------------------------------------------
(* Text values and str.strip() *)

Strip(s) == IF s = " " THEN "" ELSE s

-----------------------------------------------------------------------------
(* Image URLs: str.startswith, str.endswith, "x in s", str.lower, re.sub *)

StartsWith(s, p) == Len(s) >= Len(p) /\ SubSeq(s, 1, Len(p)) = p

EndsWith(s, p) == Len(s) >= Len(p) /\ SubSeq(s, Len(s) - Len(p) + 1, Len(s)) = p

Contains(s, x) == \E i \in 1..(Len(s) - Len(x) + 1) : SubSeq(s, i, i + Len(x) - 1) = x

ImgGood == "https://cdn.example/a.jpg"
ImgThumb == "https://cdn.example/t.jpg"
ImgWide == "https://cdn.example/b.jpg?w=800"
ImgPlaceholder == "https://cdn.example/placeholder.png"
ImgDataUri == "data:image/png;base64,AAAA"
ImgSpacer == "http://x.example/spacer.gif"
ImgRelative == "/img/blank.png"
ImgUpper == "https://x.example/PIXEL.JPG"
ImgGravatar == "https://gravatar.com/u.jpg"
ImgBody == "https://cdn.example/body.png"

\* str.lower() on the URLs above
Lower(s) == IF s = ImgUpper THEN "https://x.example/pixel.jpg" ELSE s

\* re.sub(r'(w|width)=\d+', r'\1=400', url), then the same for h=300 (and q=60)
LowQuality(url) == IF url = ImgWide THEN "https://cdn.example/b.jpg?w=400" ELSE url

\* "any(x in s for x in words)"
ContainsAny(s, words) == \E x \in words : Contains(s, x)

-----------------------------------------------------------------------------
(* fetch.py: extract_image_from_entry, extract_og_image.  None is "".
   An entry carries media_content and media_thumbnail (lists of url, "" for an
   element without url), enclosures (list of [type, href, url]), img_src (the
   src of the first <img> of its description, "" when there is none) and page
   (the article page: [ok, og, tw], the og:image and twitter:image contents) *)

\* "for x in xs: if x.get('url'): return x['url']": the first url, or ""
RECURSIVE FirstUrl(_)
FirstUrl(xs) ==
    IF xs = <<>> THEN ""
    ELSE IF Head(xs) # "" THEN Head(xs)
    ELSE FirstUrl(Tail(xs))

\* step 3: the first image-typed enclosure decides, with or without a URL
RECURSIVE EnclosureStep(_)
EnclosureStep(encs) ==
    IF encs = <<>> THEN [returned |-> FALSE, url |-> ""]
    ELSE IF StartsWith(Head(encs).type, "image/")
         THEN [returned |-> TRUE,
               url |-> IF Head(encs).href # "" THEN Head(encs).href ELSE Head(encs).url]
    ELSE EnclosureStep(Tail(encs))

\* step 5: the first media_content url that carries a width, resized
RECURSIVE LowQualityStep(_)
LowQualityStep(medias) ==
    IF medias = <<>> THEN ""
    ELSE IF Head(medias) # "" /\ (Contains(Head(medias), "w=") \/ Contains(Head(medias), "width="))
         THEN LowQuality(Head(medias))
    ELSE LowQualityStep(Tail(medias))

extract_image_from_entry(entry) ==
    LET enc == EnclosureStep(entry.enclosures)
    IN  IF FirstUrl(entry.media_content) # "" THEN FirstUrl(entry.media_content)
        ELSE IF FirstUrl(entry.media_thumbnail) # "" THEN FirstUrl(entry.media_thumbnail)
        ELSE IF enc.returned THEN enc.url
        ELSE IF entry.img_src # ""
                /\ ~ContainsAny(Lower(entry.img_src), {"1x1", "pixel", "tracker", "spacer"})
             THEN entry.img_src
        ELSE LowQualityStep(entry.media_content)

\* extract_og_image: og:image, else twitter:image, resized when it carries a
\* width; None when the request fails or the page has neither
extract_og_image(page) ==
    IF ~page.ok THEN ""
    ELSE IF page.og # ""
         THEN IF Contains(page.og, "w=") \/ Contains(page.og, "width=")
              THEN LowQuality(page.og) ELSE page.og
    ELSE IF page.tw # ""
         THEN IF Contains(page.tw, "w=") \/ Contains(page.tw, "width=")
              THEN LowQuality(page.tw) ELSE page.tw
    ELSE ""

NoPage == [ok |-> FALSE, og |-> "", tw |-> ""]

Page(og, tw) == [ok |-> TRUE, og |-> og, tw |-> tw]

\* the image fields of an entry that carries no image at all
NoImages ==
    [media_content |-> <<>>, media_thumbnail |-> <<>>, enclosures |-> <<>>,
     img_src |-> "", page |-> NoPage]

-----------------------------------------------------------------------------
(* fetch.py: feed entries to items *)

\* get_source_name: the publisher label derived from the feed URL
get_source_name(feed_url) ==
    CASE feed_url = "u1" -> "NewscastStudio"
      [] feed_url = "u2" -> "TV Technology"
      [] OTHER -> "Technology News"

LOW_PRIORITY_FEEDS == {"u2"}

\* the item process_entries appends for an entry, given the image found for
\* it: guid is the entry's id when the key is present, else the link.  An
\* entry is [title, link, hasId, id, published, updated] and the image fields;
\* a date of 0 stands for a missing *_parsed value.
EntryItem(entry, category, source_name, feed_url, now, image) ==
    [title |-> Strip(entry.title),
     link |-> Strip(entry.link),
     guid |-> IF entry.hasId THEN entry.id ELSE Strip(entry.link),
     category |-> category,
     source |-> source_name,
     image |-> image,
     pubDate |-> IF entry.published # 0 THEN entry.published
                 ELSE IF entry.updated # 0 THEN entry.updated
                 ELSE now,
     lp |-> feed_url \in LOW_PRIORITY_FEEDS]

\* the body of process_entries' loop; st is [items, article_fetch_count].  An
\* entry without title or link after strip() is skipped; an entry without a
\* structural image gets the article's og image while fewer than
\* MAX_ARTICLE_FETCHES article pages were fetched in this call
ProcessStep(st, entry, category, source_name, feed_url, now) ==
    IF Strip(entry.title) = "" \/ Strip(entry.link) = "" THEN st
    ELSE LET image == extract_image_from_entry(entry)
             fetches == image = "" /\ st.article_fetch_count < MAX_ARTICLE_FETCHES
         IN  [items |-> Append(st.items,
                          EntryItem(entry, category, source_name, feed_url, now,
                                    IF fetches THEN extract_og_image(entry.page) ELSE image)),
              article_fetch_count |-> st.article_fetch_count + (IF fetches THEN 1 ELSE 0)]

RECURSIVE ProcessLoop(_, _, _, _, _, _, _)
ProcessLoop(entries, i, st, category, source_name, feed_url, now) ==
    IF i > Len(entries) THEN st
    ELSE ProcessLoop(entries, i + 1,
                     ProcessStep(st, entries[i], category, source_name, feed_url, now),
                     category, source_name, feed_url, now)

\* process_entries with its local counter: [items, article_fetch_count]
ProcessEntries(entries, category, source_name, feed_url, now) ==
    ProcessLoop(entries, 1, [items |-> <<>>, article_fetch_count |-> 0],
                category, source_name, feed_url, now)

process_entries(entries, category, source_name, feed_url, now) ==
    ProcessEntries(entries, category, source_name, feed_url, now).items

-----------------------------------------------------------------------------
(* fetch.py: validate, deduplicate, balance *)

CategoriesOf(items) == {items[i].category : i \in 1..Len(items)}

CategoryCount(items, cat) == Cardinality({i \in 1..Len(items) : items[i].category = cat})

\* validate_news_data: no category that occurs in items has fewer than
\* MIN_REQUIRED_EACH of them
validate_news_data(items) ==
    LET failed_categories ==
            {cat \in CategoriesOf(items) : CategoryCount(items, cat) < MIN_REQUIRED_EACH}
    IN  failed_categories = {}

\* a loop body that keeps an item whatever guids were seen
DedupStepKeepsAll(st, item) ==
    [seen_guids |-> st.seen_guids \cup {item.guid},
     unique_items |-> Append(st.unique_items, item)]

\* the body of deduplicate_by_guid's loop for one item; st is the loop state
\* [seen_guids, unique_items]
DedupStep(st, item) ==
    LET guid == item.guid
    IN  IF guid # "" /\ guid \notin st.seen_guids
        THEN [seen_guids |-> st.seen_guids \cup {guid},
              unique_items |-> Append(st.unique_items, item)]
        ELSE st

\* the loop over items[lo..hi], in order, from loop state st. The range is
\* halved and the left half is evaluated before the right half starts, which
\* keeps the evaluation shallow on lists of several hundred items.
RECURSIVE DedupLoop(_, _, _, _)
DedupLoop(items, lo, hi, st) ==
    IF lo > hi THEN st
    ELSE IF lo = hi THEN DedupStep(st, items[lo])
    ELSE LET mid == (lo + hi) \div 2
             left == DedupLoop(items, lo, mid, st)
         IN  IF Len(left.unique_items) >= 0
             THEN DedupLoop(items, mid + 1, hi, left)
             ELSE left

\* deduplicate_by_guid: the first item of every non-empty guid, in input order
deduplicate_by_guid(items) ==
    DedupLoop(items, 1, Len(items), [seen_guids |-> {}, unique_items |-> <<>>]).unique_items

\* a sort that leaves the list as it is
SortNone(items) == items

\* list.sort(key=pubDate, reverse=True): descending and stable (items of equal
\* key keep their relative order)
RECURSIVE SortByPubDateDesc(_)
SortByPubDateDesc(items) ==
    IF items = <<>> THEN <<>>
    ELSE LET m == MaxOf({items[i].pubDate : i \in 1..Len(items)})
         IN  SelectSeq(items, LAMBDA x : x.pubDate = m)
               \o SortByPubDateDesc(SelectSeq(items, LAMBDA x : x.pubDate # m))

\* the keys of a dict filled in the order ks, in insertion order: the loop over
\* ks[lo..hi] from the keys inserted so far (range halved, left half first)
RECURSIVE KeyOrderLoop(_, _, _, _)
KeyOrderLoop(ks, lo, hi, keys) ==
    IF lo > hi THEN keys
    ELSE IF lo = hi
         THEN IF ks[lo] \in Range(keys) THEN keys ELSE Append(keys, ks[lo])
    ELSE LET mid == (lo + hi) \div 2
             left == KeyOrderLoop(ks, lo, mid, keys)
         IN  IF Len(left) >= 0
             THEN KeyOrderLoop(ks, mid + 1, hi, left)
             ELSE left

\* the keys of category_items, in insertion order
CategoryOrder(items) ==
    KeyOrderLoop([i \in 1..Len(items) |-> items[i].category], 1, Len(items), <<>>)

GetCount(source_counts, src) ==
    IF src \in DOMAIN source_counts THEN source_counts[src] ELSE 0

SetCount(source_counts, src, n) ==
    [x \in DOMAIN source_counts \cup {src} |-> IF x = src THEN n ELSE source_counts[x]]

\* a per-source limit that never binds
SourceLimitUnbounded(item) == MAX_NEWS_ITEMS

\* the limit balance_categories of fetch.py applies to an item's source
SourceLimit(item) ==
    IF item.lp THEN MAX_ITEMS_LOW_PRIORITY ELSE MAX_ITEMS_PER_SOURCE

\* the per-source cap loop of balance_categories
RECURSIVE SourceCapLoop(_, _, _, _)
SourceCapLoop(items, i, source_counts, capped_items) ==
    IF i > Len(items) THEN capped_items
    ELSE LET src == items[i].source
             src_count == GetCount(source_counts, src)
         IN  IF src_count < SourceLimit(items[i])
             THEN SourceCapLoop(items, i + 1, SetCount(source_counts, src, src_count + 1),
                                Append(capped_items, items[i]))
             ELSE SourceCapLoop(items, i + 1, source_counts, capped_items)

\* the per-category slice left out
CategoryCapMissing(capped_items) == capped_items

\* capped_items[:MIN_PER_CATEGORY]
CategoryCap(capped_items) == Take(capped_items, MIN_PER_CATEGORY)

\* balanced[:MAX_NEWS_ITEMS]
GlobalCap(balanced) == Take(balanced, MAX_NEWS_ITEMS)

\* one category's contribution to balanced
BalancedCategory(unique_items, cat) ==
    LET items == SortByPubDateDesc(SelectSeq(unique_items, LAMBDA x : x.category = cat))
    IN  CategoryCap(SourceCapLoop(items, 1, <<>>, <<>>))

\* balance_categories of fetch.py
balance_categories(items_in) ==
    LET unique_items == deduplicate_by_guid(items_in)
        cats == CategoryOrder(unique_items)
        balanced == Flatten([k \in 1..Len(cats) |-> BalancedCategory(unique_items, cats[k])])
    IN  GlobalCap(SortByPubDateDesc(balanced))

-----------------------------------------------------------------------------
(* fetch.py.py: balance_categories with source interleaving *)

\* the keys of buckets, in insertion order
SourceOrder(items) ==
    KeyOrderLoop([i \in 1..Len(items) |-> items[i].source], 1, Len(items), <<>>)

\* interleave_by_source: round-robin over the sources, newest first within each
interleave_by_source(items) ==
    LET srcs == SourceOrder(items)
        buckets == [k \in 1..Len(srcs) |->
                      SortByPubDateDesc(SelectSeq(items, LAMBDA x : x.source = srcs[k]))]
        max_len == IF srcs = <<>> THEN 0 ELSE MaxOf({Len(buckets[k]) : k \in 1..Len(srcs)})
    IN  Flatten([i \in 1..max_len |->
            Flatten([k \in 1..Len(srcs) |->
                IF i <= Len(buckets[k]) THEN <<buckets[k][i]>> ELSE <<>>])])

\* item.pop('_low_priority', None): afterwards item.get('_low_priority') is falsy
PopLowPriority(item) == [item EXCEPT !.lp = FALSE]

\* one category's contribution to balanced in fetch.py.py
BalancedCategory2(unique_items, cat) ==
    LET items == SortByPubDateDesc(SelectSeq(unique_items, LAMBDA x : x.category = cat))
        capped == SourceCapLoop(items, 1, <<>>, <<>>)
    IN  interleave_by_source(CategoryCap(capped))

\* balance_categories of fetch.py.py: the first component of its result
balance_categories2(items_in) ==
    LET deduped == deduplicate_by_guid(items_in)
        unique_items == [i \in 1..Len(deduped) |-> PopLowPriority(deduped[i])]
        cats == CategoryOrder(unique_items)
        balanced == Flatten([k \in 1..Len(cats) |-> BalancedCategory2(unique_items, cats[k])])
    IN  GlobalCap(SortByPubDateDesc(balanced))

\* the second component of balance_categories of fetch.py.py: category_items,
\* every category's list replaced by its capped and interleaved list
category_items2(items_in) ==
    LET deduped == deduplicate_by_guid(items_in)
        unique_items == [i \in 1..Len(deduped) |-> PopLowPriority(deduped[i])]
    IN  [cat \in CategoriesOf(unique_items) |-> BalancedCategory2(unique_items, cat)]

-----------------------------------------------------------------------------
(* fetch.py.py: generate_featured_priority *)

FEATURED_ROTATION == <<"playout", "infrastructure", "ai-post-production", "cloud">>

FEATURED_PRIORITY_COUNT == 10

\* category_items.get(cat, [])
GetCategory(category_items, cat) ==
    IF cat \in DOMAIN category_items THEN category_items[cat] ELSE <<>>

\* pools[cat]: the category's items newest first, those with an image only
\* when there is one
FeaturedPool(category_items, cat) ==
    LET all_cat == SortByPubDateDesc(GetCategory(category_items, cat))
        with_img == SelectSeq(all_cat, LAMBDA it : it.image # "")
    IN  IF with_img # <<>> THEN with_img ELSE all_cat

\* item.get('guid') or item.get('link', '')
FeaturedGuid(item) == IF item.guid # "" THEN item.guid ELSE item.link

\* a seen_guids test that never finds the guid
FeaturedSeenNever(guid, seen_guids) == FALSE

\* "guid not in seen_guids", negated
FeaturedSeen(guid, seen_guids) == guid \in seen_guids

\* "while ptr < len(pool)": the pointer after the scan and the index of the
\* item it appended (0 when the pool ran out)
RECURSIVE FeaturedScan(_, _, _)
FeaturedScan(pool, ptr, seen_guids) ==
    IF ptr >= Len(pool) THEN [ptr |-> ptr, hit |-> 0]
    ELSE IF ~FeaturedSeen(FeaturedGuid(pool[ptr + 1]), seen_guids)
         THEN [ptr |-> ptr + 1, hit |-> ptr + 1]
         ELSE FeaturedScan(pool, ptr + 1, seen_guids)

\* the body of "for cat in FEATURED_ROTATION" for one category; once featured
\* is full the loop breaks, which leaves the state as it is for the rest
FeaturedVisit(st, cat) ==
    IF Len(st.featured) >= FEATURED_PRIORITY_COUNT THEN st
    ELSE LET pool == st.pools[cat]
             scan == FeaturedScan(pool, st.pointers[cat], st.seen_guids)
         IN  IF scan.hit = 0
             THEN [st EXCEPT !.pointers[cat] = scan.ptr]
             ELSE [st EXCEPT !.pointers[cat] = scan.ptr,
                             !.featured = Append(@, pool[scan.hit]),
                             !.seen_guids = @ \cup {FeaturedGuid(pool[scan.hit])},
                             !.made_progress = TRUE]

\* "for cat in FEATURED_ROTATION" from category k on; the state after one
\* category is bound as a value before the next category is visited
RECURSIVE FeaturedFor(_, _)
FeaturedFor(st, k) ==
    IF k > Len(FEATURED_ROTATION) THEN st
    ELSE CHOOSE last \in {FeaturedFor(visited, k + 1) :
                            visited \in {FeaturedVisit(st, FEATURED_ROTATION[k])}} : TRUE

\* the state of generate_featured_priority before its while loop
FeaturedStart(category_items) ==
    [pools |-> [cat \in Range(FEATURED_ROTATION) |-> FeaturedPool(category_items, cat)],
     pointers |-> [cat \in Range(FEATURED_ROTATION) |-> 0],
     seen_guids |-> {},
     featured |-> <<>>,
     made_progress |-> FALSE]

\* one pass of the body of "while len(featured) < FEATURED_PRIORITY_COUNT"
FeaturedPass(st) == FeaturedFor([st EXCEPT !.made_progress = FALSE], 1)

-----------------------------------------------------------------------------
(* fetch.py: configuration of the modelled deployment and the feed documents
   the network can answer with *)

\* FEED_GROUPS, in iteration order; "u2" is listed under both categories
FEED_GROUPS ==
    << [category |-> "newsroom", feed_urls |-> <<"u1", "u2">>],
       [category |-> "playout", feed_urls |-> <<"u2">>] >>

DIRECT_FEEDS == {"u1"}

\* the (category, feed_url) pairs in the order main() visits them
FeedList ==
    Flatten([g \in 1..Len(FEED_GROUPS) |->
        [k \in 1..Len(FEED_GROUPS[g].feed_urls) |->
            [category |-> FEED_GROUPS[g].category, feed_url |-> FEED_GROUPS[g].feed_urls[k]]]])

\* datetime.now(timezone.utc) of the run, later than every date a feed states
Now == 9

Defects ==
    {"notitle", "nolink", "noid", "emptyid", "nodate", "updated", "shared",
     "badlink", "media", "og"}

\* the i-th entry of a document of feed u; the defect, if any, is in entry 1.
\* Unless stated by the defect an entry has no image and its article page
\* cannot be fetched
Entry(gen, u, i, defect) ==
    LET d == IF i = 1 THEN defect ELSE "none"
        link == "http://" \o u \o "/" \o gen \o ToString(i)
    IN  [title |-> IF d = "notitle" THEN " " ELSE "T",
         link |-> IF d = "nolink" THEN ""
                  ELSE IF d = "badlink" THEN "ftp://" \o u \o "/" \o gen \o ToString(i)
                  ELSE link,
         media_content |-> IF d = "media" THEN <<ImgGood>> ELSE NoImages.media_content,
         media_thumbnail |-> NoImages.media_thumbnail,
         enclosures |-> NoImages.enclosures,
         img_src |-> NoImages.img_src,
         page |-> IF d = "og" THEN Page(ImgWide, "") ELSE NoImages.page,
         hasId |-> d # "noid",
         id |-> IF d = "emptyid" THEN ""
                ELSE IF d = "shared" THEN gen \o "shared"
                ELSE gen \o u \o "-" \o ToString(i),
         published |-> IF d \in {"nodate", "updated"} THEN 0 ELSE i,
         updated |-> IF d = "updated" THEN MaxEntries + 1 ELSE 0]

Doc(gen, u, n, defect) == [i \in 1..n |-> Entry(gen, u, i, defect)]

\* a parsed feed, or None
NoFeed == [ok |-> FALSE, entries |-> <<>>]

Feed(entries) == [ok |-> TRUE, entries |-> entries]

\* what one HTTP attempt at feed u can return in this run
FetchResults(u) ==
    {NoFeed}
      \cup {Feed(Doc("n", u, n, "none")) : n \in 0..MaxEntries}
      \cup {Feed(Doc("n", u, MIN_REQUIRED_EACH, d)) : d \in Defects}
      \cup {Feed(Doc("n", u, MAX_ITEMS_PER_FEED + 1, "none"))}

should_use_direct_fetch(feed_url) == feed_url \in DIRECT_FEEDS

\* what the worker request can return; a direct feed makes no worker request
WorkerResults(feed_url) ==
    IF should_use_direct_fetch(feed_url) THEN {NoFeed} ELSE FetchResults(feed_url)

\* what the direct request can return; it is not made after the worker answered
DirectResults(feed_url, worker) ==
    IF ~should_use_direct_fetch(feed_url) /\ worker.ok THEN {NoFeed}
    ELSE FetchResults(feed_url)

\* the requests fetch_feed_with_fallback makes, in order, each [path, ok]
fetch_attempts(feed_url, worker, direct) ==
    IF should_use_direct_fetch(feed_url)
    THEN <<[path |-> "direct", ok |-> direct.ok]>>
    ELSE IF worker.ok THEN <<[path |-> "worker", ok |-> TRUE]>>
    ELSE <<[path |-> "worker", ok |-> FALSE], [path |-> "direct", ok |-> direct.ok]>>

\* fetch_feed_with_fallback, given what the worker and the direct attempt return
fetch_feed_with_fallback(feed_url, worker, direct) ==
    IF should_use_direct_fetch(feed_url)
    THEN IF direct.ok THEN direct ELSE NoFeed
    ELSE IF worker.ok THEN worker ELSE direct

-----------------------------------------------------------------------------
(* Files *)

NoFile == [exists |-> FALSE, complete |-> FALSE, items |-> <<>>]

\* a file holding the whole JSON document of data
CompleteFile(data) == [exists |-> TRUE, complete |-> TRUE, items |-> data]

\* a file holding a proper prefix of the JSON document of data
PartialFile(data) == [exists |-> TRUE, complete |-> FALSE, items |-> data]

\* what an earlier run collected and published (generation gen)
PriorDataset(gen) ==
    balance_categories(
        process_entries(Doc(gen, "u1", MIN_REQUIRED_EACH, "none"), "newsroom",
                        get_source_name("u1"), "u1", Now - 1)
        \o process_entries(Doc(gen, "u2", MIN_REQUIRED_EACH, "none"), "playout",
                        get_source_name("u2"), "u2", Now - 1))

-----------------------------------------------------------------------------
(* fetch.py main() *)

fsvars == <<news, archive, tmp>>

histvars == <<news0, archive0>>

purevars == <<input, output, output2>>

rssvars == <<existing_news, fetched, clock, runs>>

InitMain ==
    /\ prog = "fetch"
    /\ pc = "fetch"
    /\ news \in {NoFile, CompleteFile(PriorDataset("o"))}
    /\ archive \in {NoFile, CompleteFile(PriorDataset("p"))}
    /\ tmp \in {NoFile, PartialFile(PriorDataset("o"))}
    /\ news0 = news
    /\ archive0 = archive
    /\ feed_idx = 1
    /\ all_items = <<>>
    /\ balanced_items = <<>>
    /\ validation_passed = FALSE
    /\ outcome = "running"
    /\ input = <<>>
    /\ output = <<>>
    /\ output2 = <<>>
    /\ existing_news = <<>>
    /\ fetched = <<>>
    /\ clock = 0
    /\ runs = 0
    /\ fetch_log = <<>>

\* all_items after an iteration whose feed failed losing what was collected
ExtendItemsFailureResets(items_so_far, contributes, items) ==
    IF contributes THEN items_so_far \o items ELSE <<>>

\* all_items after an iteration: extended by the feed's items, or as it was
\* when the iteration ended in "continue"
ExtendItems(items_so_far, contributes, items) ==
    IF contributes THEN items_so_far \o items ELSE items_so_far

\* one iteration of the loop over FEED_GROUPS: fetch, process, extend.  raised
\* is an exception that reaches the handler of the loop body before the items
\* are added.  With logging, fetch_log records what the iteration did
Iteration(logging) ==
    /\ prog = "fetch" /\ pc = "fetch"
    /\ feed_idx <= Len(FeedList)
    /\ LET category == FeedList[feed_idx].category
           feed_url == FeedList[feed_idx].feed_url
       IN  \E worker \in WorkerResults(feed_url) :
           \E direct \in DirectResults(feed_url, worker), raised \in BOOLEAN :
             LET feed == fetch_feed_with_fallback(feed_url, worker, direct)
                 has_entries == feed.ok /\ feed.entries # <<>>
                 done == ProcessEntries(Take(feed.entries, MAX_ITEMS_PER_FEED), category,
                                        get_source_name(feed_url), feed_url, Now)
             IN  /\ raised => has_entries
                 /\ all_items' = ExtendItems(all_items, has_entries /\ ~raised, done.items)
                 /\ fetch_log' =
                      IF logging
                      THEN Append(fetch_log,
                             [feed_url |-> feed_url,
                              category |-> category,
                              tried |-> fetch_attempts(feed_url, worker, direct),
                              ok |-> feed.ok,
                              raised |-> raised,
                              entries |-> feed.entries,
                              article_fetches |-> IF has_entries /\ ~raised
                                                  THEN done.article_fetch_count ELSE 0])
                      ELSE fetch_log
    /\ feed_idx' = feed_idx + 1
    /\ UNCHANGED <<prog, pc, fsvars, histvars, balanced_items, validation_passed,
                   outcome, purevars, rssvars>>

FetchFeed == Iteration(FALSE)

\* main() without the early return: an empty run goes on to publish
NoItemsCollectedGoesOn ==
    /\ prog = "fetch" /\ pc = "fetch"
    /\ feed_idx > Len(FeedList)
    /\ all_items = <<>>
    /\ balanced_items' = balance_categories(all_items)
    /\ validation_passed' = validate_news_data(balanced_items')
    /\ pc' = "decide"
    /\ fetch_log' = <<>>
    /\ UNCHANGED <<prog, fsvars, histvars, feed_idx, all_items, outcome, purevars, rssvars>>

\* "if not all_items: return"
NoItemsCollected ==
    /\ prog = "fetch" /\ pc = "fetch"
    /\ feed_idx > Len(FeedList)
    /\ all_items = <<>>
    /\ pc' = "end"
    /\ outcome' = "no_items"
    /\ fetch_log' = <<>>
    /\ UNCHANGED <<prog, fsvars, histvars, feed_idx, all_items, balanced_items,
                   validation_passed, purevars, rssvars>>

\* balance_categories, then validate_news_data
BalanceAndValidate ==
    /\ prog = "fetch" /\ pc = "fetch"
    /\ feed_idx > Len(FeedList)
    /\ all_items # <<>>
    /\ balanced_items' = balance_categories(all_items)
    /\ validation_passed' = validate_news_data(balanced_items')
    /\ pc' = "decide"
    /\ fetch_log' = <<>>
    /\ UNCHANGED <<prog, fsvars, histvars, feed_idx, all_items, outcome, purevars, rssvars>>

\* main() with the validation result ignored once a file exists
PublishDecisionAlwaysBackup(output_exists, passed) ==
    IF output_exists THEN "backup" ELSE "save"

\* main() refusing to publish an invalid dataset also when no file exists
PublishDecisionAbortFirstRun(output_exists, passed) ==
    IF output_exists
    THEN IF passed THEN "backup" ELSE "keep"
    ELSE IF passed THEN "save" ELSE "keep"

\* the branch main() takes on OUTPUT_FILE.exists() and validation_passed
PublishDecision(output_exists, passed) ==
    IF output_exists
    THEN IF passed THEN "backup" ELSE "keep"
    ELSE "save"

Decide ==
    /\ prog = "fetch" /\ pc = "decide"
    /\ LET d == PublishDecision(news.exists, validation_passed)
       IN  /\ pc' = IF d = "backup" THEN "unlink" ELSE IF d = "keep" THEN "end" ELSE "open"
           /\ outcome' = IF d = "keep" THEN "kept_existing" ELSE outcome
    /\ UNCHANGED <<prog, fsvars, histvars, feed_idx, all_items, balanced_items,
                   validation_passed, purevars, rssvars, fetch_log>>

\* main() with the failing call wrapped in a handler that reports success
CrashSwallowed ==
    /\ pc' = "end"
    /\ outcome' = "saved"

\* an exception leaves main(): nothing after the failing call runs
Crash ==
    /\ pc' = "end"
    /\ outcome' = "error"

\* "if ARCHIVE_FILE.exists(): ARCHIVE_FILE.unlink()"
UnlinkArchive ==
    /\ prog = "fetch" /\ pc = "unlink"
    /\ archive' = NoFile
    /\ pc' = "rename"
    /\ UNCHANGED <<prog, news, tmp, histvars, feed_idx, all_items, balanced_items,
                   validation_passed, outcome, purevars, rssvars, fetch_log>>

UnlinkArchiveFails ==
    /\ prog = "fetch" /\ pc = "unlink"
    /\ archive.exists
    /\ Crash
    /\ UNCHANGED <<prog, fsvars, histvars, feed_idx, all_items, balanced_items,
                   validation_passed, purevars, rssvars, fetch_log>>

\* the old file removed instead of renamed to the archive path
RenameOutputDropsOld ==
    /\ prog = "fetch" /\ pc = "rename"
    /\ news' = NoFile
    /\ pc' = "open"
    /\ UNCHANGED <<prog, archive, tmp, histvars, feed_idx, all_items, balanced_items,
                   validation_passed, outcome, purevars, rssvars, fetch_log>>

\* OUTPUT_FILE.rename(ARCHIVE_FILE)
RenameOutput ==
    /\ prog = "fetch" /\ pc = "rename"
    /\ archive' = news
    /\ news' = NoFile
    /\ pc' = "open"
    /\ UNCHANGED <<prog, tmp, histvars, feed_idx, all_items, balanced_items,
                   validation_passed, outcome, purevars, rssvars, fetch_log>>

RenameOutputFails ==
    /\ prog = "fetch" /\ pc = "rename"
    /\ Crash
    /\ UNCHANGED <<prog, fsvars, histvars, feed_idx, all_items, balanced_items,
                   validation_passed, purevars, rssvars, fetch_log>>

\* save_json_atomically opening the target itself instead of the temp file
SaveOpenInPlace ==
    /\ prog = "fetch" /\ pc = "open"
    /\ news' = PartialFile(balanced_items)
    /\ tmp' = news'
    /\ pc' = "dump"
    /\ UNCHANGED <<prog, archive, histvars, feed_idx, all_items, balanced_items,
                   validation_passed, outcome, purevars, rssvars, fetch_log>>

\* save_json_atomically: open(temp_file, 'w') creates or truncates the temp file
SaveOpen ==
    /\ prog = "fetch" /\ pc = "open"
    /\ tmp' = PartialFile(balanced_items)
    /\ pc' = "dump"
    /\ UNCHANGED <<prog, news, archive, histvars, feed_idx, all_items, balanced_items,
                   validation_passed, outcome, purevars, rssvars, fetch_log>>

SaveOpenFails ==
    /\ prog = "fetch" /\ pc = "open"
    /\ Crash
    /\ UNCHANGED <<prog, fsvars, histvars, feed_idx, all_items, balanced_items,
                   validation_passed, purevars, rssvars, fetch_log>>

\* save_json_atomically: json.dump completes and the with-block closes the file
SaveDump ==
    /\ prog = "fetch" /\ pc = "dump"
    /\ tmp' = CompleteFile(balanced_items)
    /\ pc' = "replace"
    /\ UNCHANGED <<prog, news, archive, histvars, feed_idx, all_items, balanced_items,
                   validation_passed, outcome, purevars, rssvars, fetch_log>>

\* save_json_atomically: json.dump fails part-way (disk full)
SaveDumpFails ==
    /\ prog = "fetch" /\ pc = "dump"
    /\ Crash
    /\ UNCHANGED <<prog, fsvars, histvars, feed_idx, all_items, balanced_items,
                   validation_passed, purevars, rssvars, fetch_log>>

\* save_json_atomically: temp_file.replace(filepath)
SaveReplace ==
    /\ prog = "fetch" /\ pc = "replace"
    /\ news' = tmp
    /\ tmp' = NoFile
    /\ pc' = "end"
    /\ outcome' = "saved"
    /\ UNCHANGED <<prog, archive, histvars, feed_idx, all_items, balanced_items,
                   validation_passed, purevars, rssvars, fetch_log>>

SaveReplaceFails ==
    /\ prog = "fetch" /\ pc = "replace"
    /\ Crash
    /\ UNCHANGED <<prog, fsvars, histvars, feed_idx, all_items, balanced_items,
                   validation_passed, purevars, rssvars, fetch_log>>

NextMain ==
    \/ FetchFeed
    \/ NoItemsCollected
    \/ BalanceAndValidate
    \/ Decide
    \/ UnlinkArchive
    \/ UnlinkArchiveFails
    \/ RenameOutput
    \/ RenameOutputFails
    \/ SaveOpen
    \/ SaveOpenFails
    \/ SaveDump
    \/ SaveDumpFails
    \/ SaveReplace
    \/ SaveReplaceFails

Spec == InitMain /\ [][NextMain]_vars

-----------------------------------------------------------------------------
(* Claims about fetch.py main() *)

RunEnded == prog = "fetch" /\ pc = "end"

Validated == prog = "fetch" /\ pc # "fetch"

ConfiguredCategories == {FEED_GROUPS[g].category : g \in 1..Len(FEED_GROUPS)}

\* C1: when news.json exists at the start of the run and validate_news_data
\* rejects the balanced candidate, the run takes no backup or write step:
\* news.json and archive.json keep their pre-run content and the run ends by
\* keeping the existing file.
C1_SafePublishNonRegression ==
    (Validated /\ news0.exists /\ ~validate_news_data(balanced_items))
        => /\ pc \in {"decide", "end"}
           /\ news = news0
           /\ archive = archive0
           /\ (pc = "end" => outcome = "kept_existing")

C1_Witness ==
    /\ RunEnded /\ news0.exists /\ outcome = "kept_existing"
    /\ \E cat \in CategoriesOf(balanced_items) :
         CategoryCount(balanced_items, cat) = MIN_REQUIRED_EACH - 1
    /\ news = news0

\* C2 (as claimed): a dataset that main() writes over an existing news.json
\* holds at least MIN_REQUIRED_EACH items of every category configured in
\* FEED_GROUPS.
C2_EveryConfiguredCategoryMeetsMinimum ==
    (RunEnded /\ outcome = "saved" /\ news0.exists)
        => \A cat \in ConfiguredCategories :
             CategoryCount(news.items, cat) >= MIN_REQUIRED_EACH

\* C3: when news.json exists at the start and validation passes, a run that
\* completes leaves the pre-run news.json content in archive.json (whatever
\* the archive held before) and the new balanced dataset in news.json.
C3_SuccessfulPublish ==
    (RunEnded /\ news0.exists /\ all_items # <<>> /\ validate_news_data(balanced_items)
       /\ outcome # "error")
        => /\ outcome = "saved"
           /\ archive = news0
           /\ news = CompleteFile(balanced_items)

C3_Witness ==
    /\ RunEnded /\ outcome = "saved"
    /\ news0.exists /\ archive0.exists /\ archive0 # news0
    /\ archive = news0
    /\ news = CompleteFile(balanced_items) /\ news # news0

\* C4: the target news.json never holds a partially written document: every
\* step leaves it absent or complete, and while save_json_atomically runs it
\* changes only in the replace step, to the complete new document; a failure
\* part-way leaves the partial content at the .tmp path only.
C4_AtomicWrite ==
    [][ /\ (news.exists => news.complete)
        /\ (news'.exists => news'.complete)
        /\ (archive'.exists => archive'.complete)
        /\ (pc \in {"open", "dump", "replace"} /\ news' # news)
             => (pc = "replace" /\ news' = CompleteFile(balanced_items)) ]_vars

C4_Witness ==
    /\ RunEnded /\ outcome = "error"
    /\ tmp = PartialFile(balanced_items) /\ balanced_items # <<>>
    /\ news0.exists /\ ~news.exists

\* C5: when news.json does not exist and at least one item was collected, the
\* run writes the balanced dataset to news.json whether or not validation
\* passed (unless the write itself raises), and archive.json is not touched.
C5_FirstRunPublish ==
    (prog = "fetch" /\ ~news0.exists)
        => /\ archive = archive0
           /\ (pc = "end" /\ all_items # <<>>)
                => /\ outcome \in {"saved", "error"}
                   /\ outcome = "saved" => news = CompleteFile(balanced_items)

C5_Witness ==
    /\ RunEnded /\ ~news0.exists /\ outcome = "saved"
    /\ ~validate_news_data(balanced_items)
    /\ news = CompleteFile(balanced_items)
    /\ ~archive.exists

\* C6: a run in which no feed contributed an item ends without touching the
\* durable files: news.json and archive.json are as before the run.
C6_EmptyRunNeverOverwrites ==
    (RunEnded /\ all_items = <<>>)
        => /\ outcome = "no_items"
           /\ news = news0
           /\ archive = archive0

C6_Witness ==
    /\ RunEnded /\ all_items = <<>> /\ feed_idx > Len(FeedList)
    /\ news0.exists /\ news = news0

-----------------------------------------------------------------------------
(* balance_categories applied to bounded inputs *)

\* the items short input lists are built from
SmallItems ==
    {[title |-> "T", link |-> "http://x/" \o g, guid |-> g, category |-> c, source |-> src,
      pubDate |-> d, lp |-> FALSE] :
        g \in {"g1", "g2"}, c \in {"newsroom", "playout"},
        src \in {"NewscastStudio", "TV Technology"}, d \in 1..2}
    \cup {[title |-> "T", link |-> "http://x/0", guid |-> "", category |-> "newsroom",
           source |-> "NewscastStudio", pubDate |-> 2, lp |-> FALSE]}

\* item i of source s of category c of a bulk input; with lowprio, the first
\* source of every category is a low-priority feed
BulkItem(c, s, i, lowprio) ==
    LET name == ToString(c) \o "-" \o ToString(s) \o "-" \o ToString(i)
    IN  [title |-> "T", link |-> "http://x/" \o name, guid |-> name,
         category |-> "cat" \o ToString(c), source |-> "src" \o ToString(s),
         pubDate |-> ((i + s) % 3) + 1, lp |-> (lowprio /\ s = 1)]

\* nc categories, each fed by ns sources with n items each, category by category
BulkInput(nc, ns, n, lowprio) ==
    Flatten([c \in 1..nc |-> Flatten([s \in 1..ns |->
        [i \in 1..n |-> BulkItem(c, s, i, lowprio)]])])

InitBalance ==
    /\ prog = "balance"
    /\ pc = "build"
    /\ input = <<>>
    /\ output = <<>>
    /\ output2 = <<>>
    /\ news = NoFile
    /\ archive = NoFile
    /\ tmp = NoFile
    /\ news0 = NoFile
    /\ archive0 = NoFile
    /\ feed_idx = 0
    /\ all_items = <<>>
    /\ balanced_items = <<>>
    /\ validation_passed = FALSE
    /\ outcome = "running"
    /\ existing_news = <<>>
    /\ fetched = <<>>
    /\ clock = 0
    /\ runs = 0
    /\ fetch_log = <<>>

mainvars == <<feed_idx, all_items, balanced_items, validation_passed, outcome>>

\* the caller appends one more item to a short list
AddItem ==
    /\ prog = "balance" /\ pc = "build"
    /\ Len(input) < MaxLen
    /\ \E it \in SmallItems : input' = Append(input, it)
    /\ UNCHANGED <<prog, pc, output, output2, fsvars, histvars, mainvars, rssvars, fetch_log>>

\* the caller passes a bulk list
BulkLoad ==
    /\ prog = "balance" /\ pc = "build"
    /\ input = <<>>
    /\ \E nc \in 1..MaxCats, ns \in 1..MaxSrcs, n \in 1..MaxPerSrc, lowprio \in BOOLEAN :
         input' = BulkInput(nc, ns, n, lowprio)
    /\ pc' = "built"
    /\ UNCHANGED <<prog, output, output2, fsvars, histvars, mainvars, rssvars, fetch_log>>

\* balance_categories(input) of fetch.py and of fetch.py.py
ApplyBalance ==
    /\ prog = "balance" /\ pc \in {"build", "built"}
    /\ output' = balance_categories(input)
    /\ output2' = balance_categories2(input)
    /\ pc' = "applied"
    /\ UNCHANGED <<prog, input, fsvars, histvars, mainvars, rssvars, fetch_log>>

NextBalance ==
    \/ AddItem
    \/ BulkLoad
    \/ ApplyBalance

SpecBalance == InitBalance /\ [][NextBalance]_vars

-----------------------------------------------------------------------------
(* Claims about balance_categories *)

Applied == prog = "balance" /\ pc = "applied"

WithinCaps(items) ==
    /\ \A cat \in CategoriesOf(items) : CategoryCount(items, cat) <= MIN_PER_CATEGORY
    /\ Len(items) <= MAX_NEWS_ITEMS

\* C10: for every input list, the list returned by balance_categories (of
\* fetch.py and of fetch.py.py) has at most MIN_PER_CATEGORY items of each
\* category and at most MAX_NEWS_ITEMS items in total.
C10_CapEnforcement == Applied => (WithinCaps(output) /\ WithinCaps(output2))

\* both cuts happen: a category offering more than MIN_PER_CATEGORY items after
\* the source cap, and more than MAX_NEWS_ITEMS items after the category cap
C10_Witness ==
    /\ Applied
    /\ Len(output) = MAX_NEWS_ITEMS /\ Len(output2) = MAX_NEWS_ITEMS
    /\ Len(input) > MAX_NEWS_ITEMS
    /\ \E cat \in CategoriesOf(input) :
         /\ CategoryCount(input, cat) > MIN_PER_CATEGORY
         /\ CategoryCount(output, cat) = MIN_PER_CATEGORY
         /\ CategoryCount(output2, cat) = MIN_PER_CATEGORY

-----------------------------------------------------------------------------
(* fetch_rss.py *)

RSS_MAX_NEWS_ITEMS == 100

ARCHIVE_DAYS == 30

\* FEED_SOURCES, in iteration order: as in the deployment, one feed URL is
\* listed under several categories
FEED_SOURCES ==
    << [category |-> "newsroom", sources |-> <<[url |-> "r1", label |-> "TV Technology"]>>],
       [category |-> "playout", sources |-> <<[url |-> "r1", label |-> "TV Technology"]>>] >>

\* the (category, source) pairs in the order fetch_all_feeds visits them
SourceList ==
    Flatten([g \in 1..Len(FEED_SOURCES) |->
        [k \in 1..Len(FEED_SOURCES[g].sources) |->
            [category |-> FEED_SOURCES[g].category,
             url |-> FEED_SOURCES[g].sources[k].url,
             label |-> FEED_SOURCES[g].sources[k].label]]])

\* extract_text: the stripped text of an element, or the default when the
\* element is missing or has no text (text "" stands for both)
extract_text(text, default) == IF text # "" THEN Strip(text) ELSE default

\* extract_guid: the stripped <guid> text, else the link, else "temp-<time>"
extract_guid(item, t) ==
    IF item.guid # "" THEN Strip(item.guid)
    ELSE LET link == extract_text(item.link, "")
         IN  IF link # "" THEN link ELSE "temp-" \o ToString(t)

\* the item parse_rss_feed appends for an RSS <item>
RssItem(item, category, source_title, t) ==
    [guid |-> extract_guid(item, t),
     title |-> extract_text(item.title, "Untitled"),
     link |-> extract_text(item.link, ""),
     source |-> source_title,
     category |-> category,
     timestamp |-> t]

\* the item parse_rss_feed appends for an Atom <entry>
AtomItem(entry, category, source_title, t) ==
    [guid |-> extract_text(entry.id, entry.href),
     title |-> extract_text(entry.title, "Untitled"),
     link |-> entry.href,
     source |-> source_title,
     category |-> category,
     timestamp |-> t]

\* parse_rss_feed: xml is [kind, title, entries]; kind "bad" is unparseable XML.
\* t is the time at which parsing starts: the i-th item is stamped t + i
parse_rss_feed(xml, category, t) ==
    CASE xml.kind = "rss" ->
           [i \in 1..Len(xml.entries) |->
               RssItem(xml.entries[i], category, extract_text(xml.title, "Source"), t + i)]
      [] xml.kind = "atom" ->
           [i \in 1..Len(xml.entries) |->
               AtomItem(xml.entries[i], category, extract_text(xml.title, "Source"), t + i)]
      [] OTHER -> <<>>

\* "if label: item['source'] = label"
OverrideSource(items, label) ==
    IF label # "" THEN [i \in 1..Len(items) |-> [items[i] EXCEPT !.source = label]]
    ELSE items

\* the <item> elements a feed can carry in the run numbered run
\* resolution of the clock: clock counts days, timestamps count ticks
TicksPerDay == 100

\* datetime.now() / time.time() when the feed_idx-th source of the run that
\* started on day d is parsed, and when archive_old_items runs
ParseTime(d, idx) == d * TicksPerDay + idx * (MaxFeedItems + 1)

ArchiveTime(d) == d * TicksPerDay + (TicksPerDay - 1)

RssRawItem(i, run) ==
    LET title == "T" \o ToString(run)
    IN  CASE i = 1 -> [guid |-> "g1", title |-> title, link |-> "http://r/1"]
          [] i = 2 -> [guid |-> "", title |-> title, link |-> "http://r/2"]
          [] i = 3 -> [guid |-> " ", title |-> title, link |-> "http://r/3"]
          [] i = 4 -> [guid |-> "", title |-> title, link |-> ""]
          [] OTHER -> [guid |-> "g" \o ToString(i), title |-> title,
                       link |-> "http://r/" \o ToString(i)]

\* the <entry> elements a feed can carry in the run numbered run
AtomRawEntry(i, run) ==
    LET title == "T" \o ToString(run)
    IN  CASE i = 1 -> [id |-> "g1", title |-> title, href |-> "http://a/1"]
          [] i = 2 -> [id |-> "", title |-> title, href |-> ""]
          [] i = 3 -> [id |-> "", title |-> title, href |-> "http://a/3"]
          [] OTHER -> [id |-> "a" \o ToString(i), title |-> title,
                       href |-> "http://a/" \o ToString(i)]

NoXml == [kind |-> "none", title |-> "", entries |-> <<>>]

\* what fetch_url can return in the run numbered run: None, unparseable
\* bytes, an RSS document or an Atom document
XmlResults(run) ==
    {NoXml, [kind |-> "bad", title |-> "", entries |-> <<>>]}
      \cup {[kind |-> "rss", title |-> "Feed", entries |-> [i \in 1..n |-> RssRawItem(i, run)]] :
              n \in 0..MaxFeedItems}
      \cup {[kind |-> "atom", title |-> "Feed", entries |-> [i \in 1..n |-> AtomRawEntry(i, run)]] :
              n \in 1..MaxFeedItems}

\* load_existing_news / load_archive: the list in the file, [] when the file
\* is missing or does not parse
load_json(file) == IF file.exists /\ file.complete THEN file.items ELSE <<>>

GuidsOf(items) == {items[i].guid : i \in 1..Len(items)}

\* a loop body that appends every item
RssDedupStepKeepsAll(st, item) ==
    [seen_guids |-> st.seen_guids \cup {item.guid},
     unique_items |-> Append(st.unique_items, item)]

\* the body of the loop "Remove duplicates by GUID"; st is [seen_guids, unique_items]
RssDedupStep(st, item) ==
    IF item.guid \notin st.seen_guids
    THEN [seen_guids |-> st.seen_guids \cup {item.guid},
          unique_items |-> Append(st.unique_items, item)]
    ELSE st

\* that loop over items[lo..hi], in order (range halved, left half first)
RECURSIVE RssDedupLoop(_, _, _, _)
RssDedupLoop(items, lo, hi, st) ==
    IF lo > hi THEN st
    ELSE IF lo = hi THEN RssDedupStep(st, items[lo])
    ELSE LET mid == (lo + hi) \div 2
             left == RssDedupLoop(items, lo, mid, st)
         IN  IF Len(left.unique_items) >= 0
             THEN RssDedupLoop(items, mid + 1, hi, left)
             ELSE left

\* existing_news + all_items: the order in which fetch_all_feeds merges
MergeOrder(existing, fresh) == existing \o fresh

\* fetch_all_feeds: merged_items, then the first item of every guid
MergeAndDedup(existing, fresh) ==
    LET merged_items == MergeOrder(existing, fresh)
    IN  RssDedupLoop(merged_items, 1, Len(merged_items),
                     [seen_guids |-> {}, unique_items |-> <<>>]).unique_items

\* items.sort(key=timestamp, reverse=True): descending and stable
RECURSIVE SortByTimestampDesc(_)
SortByTimestampDesc(items) ==
    IF items = <<>> THEN <<>>
    ELSE LET m == MaxOf({items[i].timestamp : i \in 1..Len(items)})
         IN  SelectSeq(items, LAMBDA x : x.timestamp = m)
               \o SortByTimestampDesc(SelectSeq(items, LAMBDA x : x.timestamp # m))

\* the body of archive_old_items' loop; st is [news_items, to_archive]
ArchiveStep(st, item, cutoff_date) ==
    LET is_old == item.timestamp < cutoff_date
    IN  IF is_old \/ Len(st.news_items) >= RSS_MAX_NEWS_ITEMS
        THEN [st EXCEPT !.to_archive = Append(@, item)]
        ELSE [st EXCEPT !.news_items = Append(@, item)]

\* that loop over items[lo..hi], in order (range halved, left half first)
RECURSIVE ArchiveLoop(_, _, _, _, _)
ArchiveLoop(items, lo, hi, st, cutoff_date) ==
    IF lo > hi THEN st
    ELSE IF lo = hi THEN ArchiveStep(st, items[lo], cutoff_date)
    ELSE LET mid == (lo + hi) \div 2
             left == ArchiveLoop(items, lo, mid, st, cutoff_date)
         IN  IF Len(left.news_items) >= 0
             THEN ArchiveLoop(items, mid + 1, hi, left, cutoff_date)
             ELSE left

\* archive_old_items: [news_items, to_archive] for the items and the time t
archive_old_items(items, t) ==
    LET sorted == SortByTimestampDesc(items)
    IN  ArchiveLoop(sorted, 1, Len(sorted), [news_items |-> <<>>, to_archive |-> <<>>],
                    t - ARCHIVE_DAYS * TicksPerDay)

\* the list archive_old_items saves to the archive file
MergedArchive(existing_archive, to_archive) ==
    LET existing_guids == GuidsOf(existing_archive)
    IN  existing_archive \o SelectSeq(to_archive, LAMBDA x : x.guid \notin existing_guids)

InitRss ==
    /\ prog = "rss"
    /\ pc = "idle"
    /\ news = NoFile
    /\ archive = NoFile
    /\ tmp = NoFile
    /\ news0 = NoFile
    /\ archive0 = NoFile
    /\ feed_idx = 0
    /\ all_items = <<>>
    /\ balanced_items = <<>>
    /\ validation_passed = FALSE
    /\ outcome = "running"
    /\ input = <<>>
    /\ output = <<>>
    /\ output2 = <<>>
    /\ existing_news = <<>>
    /\ fetched = <<>>
    /\ clock = 0
    /\ runs = 0
    /\ fetch_log = <<>>

rssidle == <<tmp, balanced_items, validation_passed, input, output, output2, fetch_log>>

\* a run of fetch_all_feeds starts: load_existing_news. The first run starts on
\* day 1, a later run a day or more than ARCHIVE_DAYS after the previous one
RssStart ==
    /\ prog = "rss" /\ pc \in {"idle", "end"}
    /\ runs < MaxRuns
    /\ runs' = runs + 1
    /\ \E gap \in (IF runs = 0 THEN {1} ELSE {1, ARCHIVE_DAYS + 1}) : clock' = clock + gap
    /\ existing_news' = load_json(news)
    /\ news0' = news
    /\ archive0' = archive
    /\ all_items' = <<>>
    /\ fetched' = <<>>
    /\ feed_idx' = 1
    /\ outcome' = "running"
    /\ pc' = "fetch"
    /\ UNCHANGED <<prog, news, archive, rssidle>>

\* one iteration of the loop over FEED_SOURCES: fetch_url, parse_rss_feed,
\* label override, the "only add new items" filter
RssFetchSource ==
    /\ prog = "rss" /\ pc = "fetch"
    /\ feed_idx <= Len(SourceList)
    /\ \E xml_data \in XmlResults(runs) :
         LET src == SourceList[feed_idx]
             existing_guids == GuidsOf(existing_news)
             items == IF xml_data.kind = "none" THEN <<>>
                      ELSE OverrideSource(parse_rss_feed(xml_data, src.category,
                                                        ParseTime(clock, feed_idx)),
                                         src.label)
             new_items == SelectSeq(items, LAMBDA x : x.guid \notin existing_guids)
         IN  /\ all_items' = all_items \o new_items
             /\ fetched' = fetched \o items
    /\ feed_idx' = feed_idx + 1
    /\ UNCHANGED <<prog, pc, news, archive, news0, archive0, outcome, existing_news,
                   clock, runs, rssidle>>

\* merge, deduplicate, archive_old_items (which saves the archive file when
\* something is archived)
RssMergeAndArchive ==
    /\ prog = "rss" /\ pc = "fetch"
    /\ feed_idx > Len(SourceList)
    /\ LET unique_items == MergeAndDedup(existing_news, all_items)
           r == archive_old_items(unique_items, ArchiveTime(clock))
       IN  /\ all_items' = r.news_items
           /\ archive' = IF r.to_archive # <<>>
                         THEN CompleteFile(MergedArchive(load_json(archive), r.to_archive))
                         ELSE archive
    /\ pc' = "save"
    /\ UNCHANGED <<prog, news, news0, archive0, feed_idx, outcome, existing_news, fetched,
                   clock, runs, rssidle>>

\* save_json(NEWS_FILE, final_items)
RssSaveNews ==
    /\ prog = "rss" /\ pc = "save"
    /\ news' = CompleteFile(all_items)
    /\ pc' = "end"
    /\ outcome' = "saved"
    /\ UNCHANGED <<prog, archive, news0, archive0, feed_idx, all_items, existing_news,
                   fetched, clock, runs, rssidle>>

\* save_json raises part-way: the file is left truncated
RssSaveNewsFails ==
    /\ prog = "rss" /\ pc = "save"
    /\ news' = PartialFile(all_items)
    /\ pc' = "end"
    /\ outcome' = "error"
    /\ UNCHANGED <<prog, archive, news0, archive0, feed_idx, all_items, existing_news,
                   fetched, clock, runs, rssidle>>

NextRss ==
    \/ RssStart
    \/ RssFetchSource
    \/ RssMergeAndArchive
    \/ RssSaveNews
    \/ RssSaveNewsFails

SpecRss == InitRss /\ [][NextRss]_vars

\* balance_categories on bounded inputs, or runs of fetch_all_feeds
InitDedup == InitBalance \/ InitRss

NextDedup ==
    \/ NextBalance
    \/ NextRss

SpecDedup == InitDedup /\ [][NextDedup]_vars

-----------------------------------------------------------------------------
(* Claims about guids *)

\* news.json holds a dataset that a reader can parse
Published == news.exists /\ news.complete

GuidUnique(items) == Cardinality(GuidsOf(items)) = Len(items)

CountGuid(items, g) == Cardinality({i \in 1..Len(items) : items[i].guid = g})

\* C7: no two items of the list returned by balance_categories (fetch.py) share
\* a guid, and after any sequence of runs of fetch_all_feeds (fetch_rss.py) no
\* two items of news.json share a guid.
C7_GuidUniqueness ==
    /\ Applied => GuidUnique(output)
    /\ (prog = "rss" /\ Published) => GuidUnique(news.items)

\* balance_categories was given two items of one guid and returned one of them
C7_Witness ==
    /\ Applied
    /\ \E i, j \in 1..Len(input) :
         /\ i < j
         /\ input[i].guid # ""
         /\ input[i].guid = input[j].guid
         /\ CountGuid(output, input[i].guid) = 1

\* C8: no item whose guid is the empty string is ever written to news.json.
C8_NonEmptyGuid ==
    Published => \A i \in 1..Len(news.items) : news.items[i].guid # ""

\* C9: when the previously published dataset holds an item of guid g and the
\* current run of fetch_all_feeds fetches an item of guid g with another title,
\* the dataset the run publishes holds exactly one item of guid g, and it is
\* the item fetched in the current run.
C9_DedupKeepsNewest ==
    (prog = "rss" /\ pc = "end" /\ outcome = "saved") =>
        \A i \in 1..Len(existing_news), j \in 1..Len(fetched) :
            (existing_news[i].guid = fetched[j].guid
                /\ existing_news[i].title # fetched[j].title) =>
                /\ CountGuid(news.items, fetched[j].guid) = 1
                /\ \A k \in 1..Len(news.items) :
                     news.items[k].guid = fetched[j].guid =>
                         news.items[k] \in Range(fetched)

-----------------------------------------------------------------------------
(* Claims about the per-source cap of balance_categories *)

\* the (category, source, pubDate) triples of a set of items
DateKeys(S) == {<<x.category, x.source, x.pubDate>> : x \in S}

SourceCount(items, cat, src) ==
    Cardinality({i \in 1..Len(items) : items[i].category = cat /\ items[i].source = src})

\* C11: within each category of the list returned by balance_categories no
\* source name appears on more than MAX_ITEMS_PER_SOURCE items, and the items
\* kept for a source are its newest: no item of the deduplicated input that was
\* left out is newer than a kept item of the same category and source.
C11_PerSourceCap ==
    Applied =>
        LET kept == Range(output)
            dropped == Range(deduplicate_by_guid(input)) \ kept
        IN  /\ \A k \in {<<x.category, x.source>> : x \in kept} :
                 SourceCount(output, k[1], k[2]) <= MAX_ITEMS_PER_SOURCE
            /\ \A d \in DateKeys(dropped), k \in DateKeys(kept) :
                 (d[1] = k[1] /\ d[2] = k[2]) => k[3] >= d[3]

\* a source offered more than MAX_ITEMS_PER_SOURCE items of a category and
\* exactly MAX_ITEMS_PER_SOURCE of them were returned
C11_Witness ==
    /\ Applied
    /\ \E i \in 1..Len(input) :
         /\ SourceCount(input, input[i].category, input[i].source) > MAX_ITEMS_PER_SOURCE
         /\ SourceCount(output, input[i].category, input[i].source) = MAX_ITEMS_PER_SOURCE

-----------------------------------------------------------------------------
(* balance_categories applied to short lists of up to three distinct guids,
   categories in any order *)

\* the items these lists are built from; g3 comes from another feed
OrderItems ==
    {[title |-> "T", link |-> "http://x/" \o g, guid |-> g, category |-> c,
      source |-> IF g = "g3" THEN "TV Technology" ELSE "NewscastStudio",
      pubDate |-> d, lp |-> FALSE] :
        g \in {"g1", "g2", "g3"}, c \in {"newsroom", "playout"}, d \in 1..2}

\* the caller appends one more item to a short list
AddOrderItem ==
    /\ prog = "balance" /\ pc = "build"
    /\ Len(input) < MaxLen
    /\ \E it \in OrderItems : input' = Append(input, it)
    /\ UNCHANGED <<prog, pc, output, output2, fsvars, histvars, mainvars, rssvars, fetch_log>>

NextOrder ==
    \/ AddOrderItem
    \/ BulkLoad
    \/ ApplyBalance

SpecOrder == InitBalance /\ [][NextOrder]_vars

-----------------------------------------------------------------------------
(* Claims about the order of the list balance_categories returns *)

GuidSeq(items) == [i \in 1..Len(items) |-> items[i].guid]

\* the position of the first item of guid g in items
FirstIndex(items, g) == CHOOSE i \in 1..Len(items) :
    /\ items[i].guid = g
    /\ \A j \in 1..(i - 1) : items[j].guid # g

\* C12: the list returned by balance_categories is ordered by pubDate
\* descending: each item's pubDate is >= the next item's.
C12_RecencyOrdering ==
    Applied => \A i \in 1..(Len(output) - 1) : output[i].pubDate >= output[i + 1].pubDate

\* two items of different feeds given oldest first are returned newest first
C12_Witness ==
    /\ Applied
    /\ Len(input) = 2
    /\ input[1].source # input[2].source
    /\ input[1].pubDate < input[2].pubDate
    /\ output = <<input[2], input[1]>>

C14_Idempotent ==
    Applied => GuidSeq(balance_categories(output)) = GuidSeq(output)

-----------------------------------------------------------------------------
(* fetch_rss.py: extract_image.  An item carries thumbnail (the url of
   media:thumbnail, "" without one), media_content (list of [url, medium]),
   enclosure ([url, type], url "" without one), encoded_imgs and
   description_imgs (the src of the <img> tags of content:encoded and of
   description, in document order) *)

\* is_valid_image
is_valid_image(url) ==
    LET url_lower == Lower(url)
    IN  IF url = "" THEN FALSE
        ELSE IF ContainsAny(url_lower, {"1x1", "pixel", "tracker", "beacon"}) THEN FALSE
        ELSE IF ContainsAny(url_lower, {"headshot", "portrait", "person", "face", "avatar",
                                        "profile"}) THEN FALSE
        ELSE IF EndsWith(url_lower, ".gif") THEN FALSE
        ELSE \E ext \in {".jpg", ".jpeg", ".png", ".webp"} : EndsWith(url_lower, ext)

\* ImageExtractor.handle_starttag: whether an <img src> is collected
ImageExtractorKeeps(src) ==
    /\ src # ""
    /\ ~ContainsAny(Lower(src), {"1x1", "pixel", "tracker", "headshot", "portrait", "person"})
    /\ ~EndsWith(src, ".gif")

\* extract_image_from_html: the first collected image, or None
extract_image_from_html(imgs) ==
    LET images == SelectSeq(imgs, ImageExtractorKeeps)
    IN  IF images # <<>> THEN images[1] ELSE ""

\* the loop over media:content elements of extract_image
RECURSIVE MediaContentStep(_)
MediaContentStep(contents) ==
    IF contents = <<>> THEN ""
    ELSE IF Head(contents).url # "" /\ Head(contents).medium = "image"
            /\ is_valid_image(Head(contents).url)
         THEN Head(contents).url
    ELSE MediaContentStep(Tail(contents))

\* CATEGORY_FALLBACKS.get(category, "assets/fallback.jpg")
CategoryFallback(category) ==
    CASE category = "newsroom" ->
           "https://images.unsplash.com/photo-1504711434969-e33886168f5c?w=800&q=80"
      [] category = "playout" ->
           "https://images.unsplash.com/photo-1598488035139-bdbb2231ce04?w=800&q=80"
      [] OTHER -> "assets/fallback.jpg"

extract_image(item, category) ==
    LET enc == item.enclosure
        from_encoded == extract_image_from_html(item.encoded_imgs)
        from_desc == extract_image_from_html(item.description_imgs)
    IN  IF is_valid_image(item.thumbnail) THEN item.thumbnail
        ELSE IF MediaContentStep(item.media_content) # ""
             THEN MediaContentStep(item.media_content)
        ELSE IF enc.url # "" /\ StartsWith(enc.type, "image/") /\ is_valid_image(enc.url)
             THEN enc.url
        ELSE IF from_encoded # "" /\ is_valid_image(from_encoded) THEN from_encoded
        ELSE IF from_desc # "" /\ is_valid_image(from_desc) THEN from_desc
        ELSE CategoryFallback(category)

-----------------------------------------------------------------------------
(* The image functions applied to bounded entries *)

\* feed entries as extract_image_from_entry and extract_og_image read them
ImageEntries ==
    {[kind |-> "entry", media_content |-> mc, media_thumbnail |-> mt, enclosures |-> en,
      img_src |-> src, page |-> pg] :
        mc \in {<<>>, <<"">>, <<ImgGood>>, <<"", ImgWide>>, <<ImgDataUri>>},
        mt \in {<<>>, <<ImgThumb>>, <<ImgPlaceholder>>},
        en \in {<<>>,
                <<[type |-> "image/jpeg", href |-> "", url |-> ""]>>,
                <<[type |-> "audio/mpeg", href |-> "http://x.example/a.mp3", url |-> ""],
                  [type |-> "image/png", href |-> "", url |-> ImgBody]>>},
        src \in {"", ImgBody, ImgSpacer, ImgUpper, ImgRelative},
        pg \in {NoPage, Page(ImgWide, ""), Page("", ImgGravatar), Page("", "")}}

\* RSS items as extract_image reads them
RssImageItems ==
    {[kind |-> "item", category |-> c, thumbnail |-> th, media_content |-> mc,
      enclosure |-> en, encoded_imgs |-> ei, description_imgs |-> di] :
        c \in {"newsroom", "playout"},
        th \in {"", ImgThumb, ImgUpper, ImgPlaceholder},
        mc \in {<<>>, <<[url |-> ImgGood, medium |-> "image"]>>,
                <<[url |-> ImgGood, medium |-> "video"],
                  [url |-> ImgRelative, medium |-> "image"]>>},
        en \in {[url |-> "", type |-> ""], [url |-> ImgBody, type |-> "image/png"],
                [url |-> ImgSpacer, type |-> "image/gif"]},
        ei \in {<<>>, <<ImgSpacer, ImgBody>>, <<ImgGravatar>>},
        di \in {<<>>, <<ImgDataUri>>, <<ImgGood>>}}

\* the image process_entries publishes for an entry while its budget lasts
PublishedImage(entry) ==
    LET image == extract_image_from_entry(entry)
    IN  IF image = "" THEN extract_og_image(entry.page) ELSE image

InitImage ==
    /\ prog = "image"
    /\ pc = "build"
    /\ input \in ImageEntries \cup RssImageItems
    /\ output = <<>>
    /\ output2 = <<>>
    /\ news = NoFile
    /\ archive = NoFile
    /\ tmp = NoFile
    /\ news0 = NoFile
    /\ archive0 = NoFile
    /\ feed_idx = 0
    /\ all_items = <<>>
    /\ balanced_items = <<>>
    /\ validation_passed = FALSE
    /\ outcome = "running"
    /\ existing_news = <<>>
    /\ fetched = <<>>
    /\ clock = 0
    /\ runs = 0
    /\ fetch_log = <<>>

\* fetch.py: extract_image_from_entry(entry), and the image published for it
ApplyEntryImage ==
    /\ prog = "image" /\ pc = "build"
    /\ input.kind = "entry"
    /\ output' = extract_image_from_entry(input)
    /\ output2' = PublishedImage(input)
    /\ pc' = "applied"
    /\ UNCHANGED <<prog, input, fsvars, histvars, mainvars, rssvars, fetch_log>>

\* fetch_rss.py: extract_image(item, category)
ApplyRssImage ==
    /\ prog = "image" /\ pc = "build"
    /\ input.kind = "item"
    /\ output' = extract_image(input, input.category)
    /\ output2' = output'
    /\ pc' = "applied"
    /\ UNCHANGED <<prog, input, fsvars, histvars, mainvars, rssvars, fetch_log>>

NextImage ==
    \/ ApplyEntryImage
    \/ ApplyRssImage

SpecImage == InitImage /\ [][NextImage]_vars

-----------------------------------------------------------------------------
(* Claims about images *)

ImageApplied == prog = "image" /\ pc = "applied"

RejectedPlaceholders ==
    {"1x1", "pixel", "spacer", "blank", "placeholder", "avatar", "gravatar", "data:"}

ValidImageUrl(url) ==
    /\ StartsWith(url, "http://") \/ StartsWith(url, "https://")
    /\ ~ContainsAny(Lower(url), RejectedPlaceholders)

\* C18: every published image that is not null starts with http:// or
\* https:// and contains none of the rejected placeholder substrings, whichever
\* cascade step produced it (fetch.py and fetch_rss.py).
C18_ImageValidity ==
    ImageApplied => (output2 # "" => ValidImageUrl(output2))

\* the candidate each cascade step of extract_image_from_entry offers
CascadeCandidates(entry) ==
    LET encs == SelectSeq(entry.enclosures,
                          LAMBDA e : StartsWith(e.type, "image/") /\ (e.href # "" \/ e.url # ""))
    IN  << FirstUrl(entry.media_content),
           FirstUrl(entry.media_thumbnail),
           IF encs = <<>> THEN ""
           ELSE IF encs[1].href # "" THEN encs[1].href ELSE encs[1].url,
           IF ContainsAny(Lower(entry.img_src), {"1x1", "pixel", "tracker", "spacer"})
           THEN "" ELSE entry.img_src >>

\* C19: extract_image_from_entry returns the candidate of the earliest cascade
\* step that yields a usable URL; a step without a usable URL never keeps the
\* later steps from being tried.
C19_CascadeFallThrough ==
    (ImageApplied /\ input.kind = "entry") =>
        LET usable == SelectSeq(CascadeCandidates(input), LAMBDA u : u # "")
        IN  output = IF usable = <<>> THEN "" ELSE usable[1]

-----------------------------------------------------------------------------
(* The feed loop of fetch.py main(), every iteration recorded *)

\* a run that starts with no file in data/
InitLoop ==
    /\ InitMain
    /\ news = NoFile /\ archive = NoFile /\ tmp = NoFile

FetchFeedLogged == Iteration(TRUE)

NextLoop == FetchFeedLogged

SpecLoop == InitLoop /\ [][NextLoop]_vars

-----------------------------------------------------------------------------
(* Claims about the feed loop *)

InLoop == prog = "fetch" /\ pc = "fetch"

\* the iteration ended in "continue": the fetch failed or an exception reached
\* the handler of the loop body
FeedFailed(r) == ~r.ok \/ r.raised

\* what a recorded feed contributes on its own
Contribution(r) ==
    IF FeedFailed(r) \/ r.entries = <<>> THEN <<>>
    ELSE process_entries(Take(r.entries, MAX_ITEMS_PER_FEED), r.category,
                         get_source_name(r.feed_url), r.feed_url, Now)

\* C15: when the primary fetch of a feed fails, fetch_feed_with_fallback tries
\* the other path exactly once before giving up; no feed is given up after a
\* single failed attempt and none is attempted more than twice.
C15_FetchFallback ==
    InLoop =>
        \A k \in 1..Len(fetch_log) :
            LET tried == fetch_log[k].tried
            IN  /\ Len(tried) <= 2
                /\ ~tried[1].ok => (Len(tried) = 2 /\ tried[2].path # tried[1].path)

C17_GlobalImageBudget ==
    InLoop =>
        Len(Flatten([k \in 1..Len(fetch_log) |->
                [i \in 1..fetch_log[k].article_fetches |-> k]])) <= MAX_ARTICLE_FETCHES

\* C20: process_entries produces no item for an entry whose title or link is
\* missing or empty, or whose link does not start with http:// or https://.
C20_EntryRejection ==
    InLoop =>
        \A i \in 1..Len(all_items) :
            /\ all_items[i].title # ""
            /\ StartsWith(all_items[i].link, "http://")
                 \/ StartsWith(all_items[i].link, "https://")

-----------------------------------------------------------------------------
(* Claims about the write step of fetch.py main() *)

InSave == prog = "fetch" /\ pc \in {"open", "dump", "replace"}

\* C21: when a step of save_json_atomically (opening or writing the temporary
\* file, or renaming it over news.json) ends main() without the new dataset
\* installed as news.json, the run ends as failed and never as saved.
C21_WriteFailureFatal ==
    [][(InSave /\ pc' = "end" /\ news' # CompleteFile(balanced_items))
          => outcome' = "error"]_vars

\* a run that failed while writing the temporary file
C21_Witness ==
    /\ prog = "fetch" /\ pc = "end"
    /\ outcome = "error"
    /\ tmp = PartialFile(balanced_items)
    /\ news # CompleteFile(balanced_items)

-----------------------------------------------------------------------------
(* generate_featured_priority applied to bounded inputs *)

MaxFeatured == 3

\* the items short inputs are built from: guids repeat across categories and
\* images, one category is outside FEATURED_ROTATION, and two items have no
\* guid, the link of one being the guid of other items
FeaturedItems ==
    {[title |-> "T", link |-> "http://x/" \o g, guid |-> g, category |-> c,
      source |-> "NewscastStudio", pubDate |-> IF g = "g1" THEN 1 ELSE 2,
      image |-> img, lp |-> FALSE] :
        g \in {"g1", "g2"}, c \in {"playout", "cloud"}, img \in {"", ImgGood}}
    \cup {[title |-> "T", link |-> "http://x/g4", guid |-> "g4", category |-> "newsroom",
           source |-> "NewscastStudio", pubDate |-> 2, image |-> ImgGood, lp |-> FALSE]}
    \cup {[title |-> "T", link |-> l, guid |-> "", category |-> "playout",
           source |-> "NewscastStudio", pubDate |-> 2, image |-> ImgGood, lp |-> FALSE] :
             l \in {"g2", "http://x/g5"}}

\* item i of category c of a bulk input; no item of "cloud" has an image
FeaturedBulkItem(c, i) ==
    [title |-> "T", link |-> "http://x/" \o c \o ToString(i), guid |-> c \o ToString(i),
     category |-> c, source |-> "src" \o ToString(i % 2), pubDate |-> (i % 2) + 1,
     image |-> IF c = "cloud" THEN "" ELSE ImgGood, lp |-> FALSE]

\* n items of every rotation category and of one other category
FeaturedBulkInput(n) ==
    LET cats == FEATURED_ROTATION \o <<"newsroom">>
    IN  Flatten([k \in 1..Len(cats) |-> [i \in 1..n |-> FeaturedBulkItem(cats[k], i)]])

\* a category_items dict given by the caller: the items of every category in
\* input order, with an empty list under "cloud" when it has none
GroupByCategory(items) ==
    [cat \in CategoriesOf(items) \cup {"cloud"} |->
        SelectSeq(items, LAMBDA x : x.category = cat)]

InitFeatured ==
    /\ prog = "featured"
    /\ pc = "build"
    /\ input = <<>>
    /\ output = <<>>
    /\ output2 = <<>>
    /\ news = NoFile
    /\ archive = NoFile
    /\ tmp = NoFile
    /\ news0 = NoFile
    /\ archive0 = NoFile
    /\ feed_idx = 0
    /\ all_items = <<>>
    /\ balanced_items = <<>>
    /\ validation_passed = FALSE
    /\ outcome = "running"
    /\ existing_news = <<>>
    /\ fetched = <<>>
    /\ clock = 0
    /\ runs = 0
    /\ fetch_log = <<>>

\* one more item collected
AddFeaturedItem ==
    /\ prog = "featured" /\ pc = "build"
    /\ Len(input) < MaxLen
    /\ \E it \in FeaturedItems : input' = Append(input, it)
    /\ UNCHANGED <<prog, pc, output, output2, fsvars, histvars, mainvars, rssvars, fetch_log>>

\* a bulk list collected
FeaturedBulkLoad ==
    /\ prog = "featured" /\ pc = "build"
    /\ input = <<>>
    /\ \E n \in 1..MaxFeatured : input' = FeaturedBulkInput(n)
    /\ pc' = "built"
    /\ UNCHANGED <<prog, output, output2, fsvars, histvars, mainvars, rssvars, fetch_log>>

\* main() of fetch.py.py: generate_featured_priority called with the
\* category_items balance_categories returned for all_items = input
CallFeaturedFromMain ==
    /\ prog = "featured" /\ pc \in {"build", "built"}
    /\ input # <<>>
    /\ output' = FeaturedStart(category_items2(input))
    /\ pc' = "while"
    /\ UNCHANGED <<prog, input, output2, fsvars, histvars, mainvars, rssvars, fetch_log>>

\* generate_featured_priority called with a dict of the caller's own
CallFeatured ==
    /\ prog = "featured" /\ pc \in {"build", "built"}
    /\ output' = FeaturedStart(GroupByCategory(input))
    /\ pc' = "while"
    /\ UNCHANGED <<prog, input, output2, fsvars, histvars, mainvars, rssvars, fetch_log>>

\* one iteration of the while loop; "if not made_progress: break" leaves it
FeaturedIterate ==
    /\ prog = "featured" /\ pc = "while"
    /\ Len(output.featured) < FEATURED_PRIORITY_COUNT
    /\ output' = FeaturedPass(output)
    /\ IF output'.made_progress
       THEN pc' = "while" /\ output2' = output2
       ELSE pc' = "returned" /\ output2' = output'.featured
    /\ UNCHANGED <<prog, input, fsvars, histvars, mainvars, rssvars, fetch_log>>

\* the while condition fails: return featured
FeaturedReturn ==
    /\ prog = "featured" /\ pc = "while"
    /\ Len(output.featured) >= FEATURED_PRIORITY_COUNT
    /\ output2' = output.featured
    /\ pc' = "returned"
    /\ UNCHANGED <<prog, input, output, fsvars, histvars, mainvars, rssvars, fetch_log>>

NextFeatured ==
    \/ AddFeaturedItem
    \/ FeaturedBulkLoad
    \/ CallFeaturedFromMain
    \/ CallFeatured
    \/ FeaturedIterate
    \/ FeaturedReturn

SpecFeatured == InitFeatured /\ [][NextFeatured]_vars

\* the loop is not abandoned: a call that has started keeps running
SpecFeaturedLive ==
    SpecFeatured /\ WF_vars(FeaturedIterate) /\ WF_vars(FeaturedReturn)

-----------------------------------------------------------------------------
(* Claims about generate_featured_priority *)

FeaturedReturned == prog = "featured" /\ pc = "returned"

\* the call was the one main() makes
FeaturedFromMain == output.pools = FeaturedStart(category_items2(input)).pools

\* position of a category in FEATURED_ROTATION
RotationIndex(cat) == CHOOSE k \in 1..Len(FEATURED_ROTATION) : FEATURED_ROTATION[k] = cat

\* C22: the featured_priority list main() of fetch.py.py writes has at most one
\* item of any category, and its items' categories follow the order of
\* FEATURED_ROTATION.
C22_FeaturedSetShape ==
    (FeaturedReturned /\ FeaturedFromMain) =>
        \A i, j \in 1..Len(output2) :
            i < j => RotationIndex(output2[i].category) < RotationIndex(output2[j].category)

\* every item of every pool has been passed by its pointer
PoolsConsumed(st) ==
    \A cat \in Range(FEATURED_ROTATION) : st.pointers[cat] = Len(st.pools[cat])

\* C27: every call of generate_featured_priority returns; the returned items
\* have pairwise distinct guids (guid, or link for an item without guid); the
\* list has FEATURED_PRIORITY_COUNT items, or fewer only when the pool of every
\* FEATURED_ROTATION category has been consumed to its end.
C27_FeaturedTerminates ==
    /\ [](FeaturedReturned =>
            /\ \A i, j \in 1..Len(output2) :
                 i # j => FeaturedGuid(output2[i]) # FeaturedGuid(output2[j])
            /\ Len(output2) <= FEATURED_PRIORITY_COUNT
            /\ Len(output2) < FEATURED_PRIORITY_COUNT => PoolsConsumed(output))
    /\ ((prog = "featured" /\ pc = "while") ~> FeaturedReturned)

\* a call that returned fewer items than its pools held, a repeated guid
\* having been passed over
C27_Witness ==
    /\ FeaturedReturned
    /\ Len(output2) >= 2
    /\ \E cat \in Range(FEATURED_ROTATION) :
         \E i, j \in 1..Len(output.pools[cat]) :
            i < j /\ FeaturedGuid(output.pools[cat][i]) = FeaturedGuid(output.pools[cat][j])

-----------------------------------------------------------------------------
(* scrapers/html_sources.py and html_sources.py: text, hrefs, urljoin.
   A call ends in a value or in an exception: [raised, ...] *)

UpperLetters == "ABCDEFGHIJKLMNOPQRSTUVWXYZ"

LowerLetters == "abcdefghijklmnopqrstuvwxyz"

CharAt(s, i) == SubSeq(s, i, i)

IsUpperChar(c) == \E k \in 1..Len(UpperLetters) : CharAt(UpperLetters, k) = c

IsLowerChar(c) == \E k \in 1..Len(LowerLetters) : CharAt(LowerLetters, k) = c

LowerChar(c) ==
    IF IsUpperChar(c)
    THEN CharAt(LowerLetters, CHOOSE k \in 1..Len(UpperLetters) : CharAt(UpperLetters, k) = c)
    ELSE c

\* str.lower()
RECURSIVE LowerText(_)
LowerText(s) ==
    IF s = "" THEN "" ELSE LowerChar(CharAt(s, 1)) \o LowerText(SubSeq(s, 2, Len(s)))

\* str.isupper(): a cased character, and no lower-case one
IsUpper(s) ==
    /\ \E i \in 1..Len(s) : IsUpperChar(CharAt(s, i))
    /\ \A i \in 1..Len(s) : ~IsLowerChar(CharAt(s, i))

\* str.strip() and get_text(strip=True) on text with blanks at its ends
RECURSIVE StripText(_)
StripText(s) ==
    IF s = "" THEN ""
    ELSE IF CharAt(s, 1) = " " THEN StripText(SubSeq(s, 2, Len(s)))
    ELSE IF CharAt(s, Len(s)) = " " THEN StripText(SubSeq(s, 1, Len(s) - 1))
    ELSE s

\* str.rstrip('/')
RECURSIVE RStripSlash(_)
RStripSlash(s) ==
    IF s # "" /\ CharAt(s, Len(s)) = "/" THEN RStripSlash(SubSeq(s, 1, Len(s) - 1)) ELSE s

\* position of the first x in s, 0 when there is none
FirstPos(s, x) ==
    IF Contains(s, x)
    THEN CHOOSE i \in 1..Len(s) :
            /\ SubSeq(s, i, i + Len(x) - 1) = x
            /\ \A j \in 1..(i - 1) : SubSeq(s, j, j + Len(x) - 1) # x
    ELSE 0

\* urlsplit finds a scheme: letters up to the first ":"
HasScheme(url) ==
    LET colon == FirstPos(url, ":")
    IN  /\ colon > 1
        /\ \A i \in 1..(colon - 1) : IsUpperChar(CharAt(url, i)) \/ IsLowerChar(CharAt(url, i))

\* urlsplit raises ValueError("Invalid IPv6 URL") on a bracket without its pair
\* in the network location
InvalidNetloc(url) ==
    /\ Contains(url, "//")
    /\ Contains(url, "[") # Contains(url, "]")

\* urljoin(base, href) for a base made of scheme and host (with or without a
\* final "/") and a non-empty href: a href with a scheme stays as it is, "//host"
\* takes the scheme of the base, a path is put under the host of the base
urljoin(base, href) ==
    IF InvalidNetloc(href) THEN [raised |-> TRUE, url |-> ""]
    ELSE IF HasScheme(href) THEN [raised |-> FALSE, url |-> href]
    ELSE IF StartsWith(href, "//")
         THEN [raised |-> FALSE, url |-> SubSeq(base, 1, FirstPos(base, ":")) \o href]
    ELSE IF StartsWith(href, "/")
         THEN [raised |-> FALSE, url |-> RStripSlash(base) \o href]
    ELSE [raised |-> FALSE, url |-> RStripSlash(base) \o "/" \o href]

\* _normalise_href of scrapers/html_sources.py
normalise_href(href_in, base) ==
    LET href == StripText(href_in)
        joined == urljoin(base, href)
    IN  IF href = "" \/ StartsWith(href, "#") THEN [raised |-> FALSE, url |-> ""]
        ELSE IF StartsWith(LowerText(href), "javascript") THEN [raised |-> FALSE, url |-> ""]
        ELSE IF StartsWith(href, "http") THEN [raised |-> FALSE, url |-> href]
        ELSE IF joined.raised THEN joined
        ELSE IF ~StartsWith(joined.url, "http") THEN [raised |-> FALSE, url |-> ""]
        ELSE joined

\* _normalise_href of html_sources.py
normalise_href2(href_in, base) ==
    LET href == StripText(href_in)
    IN  IF href = "" \/ StartsWith(href, "#") THEN [raised |-> FALSE, url |-> ""]
        ELSE IF StartsWith(href, "http") THEN [raised |-> FALSE, url |-> href]
        ELSE urljoin(base, href)

-----------------------------------------------------------------------------
(* scrapers/html_sources.py and html_sources.py: _parse_anchors and the
   scrapers.  A page is [article, plain]: the anchors of the h2 headings
   inside <article>, followed in the document by those of the h2 headings
   outside it; an anchor is [text, href] *)

\* soup.select(selector), in document order
Select(page, selector) ==
    IF selector = "article h2 a" THEN page.article
    ELSE IF selector = "h2 a" THEN page.article \o page.plain
    ELSE <<>>

\* the item _parse_anchors appends
AnchorItem(title, href, now) ==
    [title |-> title, link |-> href, guid |-> href, image |-> "", pubDate |-> now]

\* the body of the anchor loop of scrapers/html_sources.py for one anchor; st is
\* [raised, results, broke]
AnchorStep(st, anchor, base_url, limit) ==
    LET title == StripText(anchor.text)
        href == normalise_href(anchor.href, base_url)
        results == Append(st.results, AnchorItem(title, href.url, Now))
    IN  IF st.raised \/ st.broke THEN st
        ELSE IF href.raised THEN [st EXCEPT !.raised = TRUE]
        ELSE IF href.url = "" \/ RStripSlash(href.url) = RStripSlash(base_url) THEN st
        ELSE IF Len(title) < 12 THEN st
        ELSE IF IsUpper(title) /\ Len(title) < 40 THEN st
        ELSE [st EXCEPT !.results = results, !.broke = Len(results) >= limit]

\* the body of the anchor loop of html_sources.py for one anchor
AnchorStep2(st, anchor, base_url, limit) ==
    LET title == StripText(anchor.text)
        href == normalise_href2(anchor.href, base_url)
    IN  IF st.raised THEN st
        ELSE IF href.raised THEN [st EXCEPT !.raised = TRUE]
        ELSE IF title = "" \/ href.url = "" THEN st
        ELSE [st EXCEPT !.results = Append(@, AnchorItem(title, href.url, Now))]

\* "for anchor in anchors[:limit * 3]" from anchor i on
RECURSIVE AnchorLoop(_, _, _, _, _)
AnchorLoop(anchors, i, st, base_url, limit) ==
    IF i > Min(Len(anchors), limit * 3) THEN st
    ELSE AnchorLoop(anchors, i + 1, AnchorStep(st, anchors[i], base_url, limit),
                    base_url, limit)

\* "for anchor in anchors[:limit]" from anchor i on
RECURSIVE AnchorLoop2(_, _, _, _, _)
AnchorLoop2(anchors, i, st, base_url, limit) ==
    IF i > Min(Len(anchors), limit) THEN st
    ELSE AnchorLoop2(anchors, i + 1, AnchorStep2(st, anchors[i], base_url, limit),
                     base_url, limit)

\* "for selector in selectors" of scrapers/html_sources.py from selector k on
RECURSIVE SelectorLoop(_, _, _, _, _)
SelectorLoop(page, base_url, selectors, k, limit) ==
    IF k > Len(selectors) THEN [raised |-> FALSE, results |-> <<>>]
    ELSE LET st == AnchorLoop(Select(page, selectors[k]), 1,
                              [raised |-> FALSE, results |-> <<>>, broke |-> FALSE],
                              base_url, limit)
         IN  IF st.raised THEN [raised |-> TRUE, results |-> <<>>]
             ELSE IF st.results # <<>> THEN [raised |-> FALSE, results |-> st.results]
             ELSE SelectorLoop(page, base_url, selectors, k + 1, limit)

\* "for selector in selectors" of html_sources.py from selector k on
RECURSIVE SelectorLoop2(_, _, _, _, _)
SelectorLoop2(page, base_url, selectors, k, limit) ==
    IF k > Len(selectors) THEN [raised |-> FALSE, results |-> <<>>]
    ELSE LET st == AnchorLoop2(Select(page, selectors[k]), 1,
                               [raised |-> FALSE, results |-> <<>>], base_url, limit)
         IN  IF st.raised THEN [raised |-> TRUE, results |-> <<>>]
             ELSE IF st.results # <<>> THEN [raised |-> FALSE, results |-> st.results]
             ELSE SelectorLoop2(page, base_url, selectors, k + 1, limit)

\* _parse_anchors of scrapers/html_sources.py
parse_anchors(page, base_url, selectors, limit) ==
    SelectorLoop(page, base_url, selectors, 1, limit)

\* _parse_anchors of html_sources.py
parse_anchors2(page, base_url, selectors, limit) ==
    SelectorLoop2(page, base_url, selectors, 1, limit)

TVBE_SELECTORS ==
    <<"h2.article-title a", "h3.article-title a", "h2.entry-title a", "h3.entry-title a",
      "article h2 a", "article h3 a", ".post-title a", "h2 a", "h3 a">>

NCS_SELECTORS ==
    <<"h2.entry-title a", "h3.entry-title a", "h2.article-title a", "h3.article-title a",
      "article h2 a", "article h3 a", ".post-title a", "h2 a", "h3 a">>

\* what requests.get does: it raises, or answers with a status and a body
\* that is empty or holds the page
Responses ==
    {[kind |-> "exception", status |-> 0, body |-> FALSE],
     [kind |-> "answer", status |-> 404, body |-> TRUE],
     [kind |-> "answer", status |-> 200, body |-> FALSE],
     [kind |-> "answer", status |-> 200, body |-> TRUE]}

\* _fetch_html: the text of a 200 answer, None otherwise
fetch_html(response) ==
    IF response.kind = "answer" /\ response.status = 200
    THEN [none |-> FALSE, body |-> response.body]
    ELSE [none |-> TRUE, body |-> FALSE]

\* "for item in items: item['source'] = ..."
WithSource(parsed, label) ==
    [parsed EXCEPT !.results = [i \in 1..Len(@) |->
        [title |-> @[i].title, link |-> @[i].link, guid |-> @[i].guid, image |-> @[i].image,
         pubDate |-> @[i].pubDate, source |-> label]]]

\* the common body of the two scrapers: "if not _check_deps()", "if not html"
ScraperResult(deps_available, html, parsed, label) ==
    IF ~deps_available THEN [raised |-> FALSE, results |-> <<>>]
    ELSE IF html.none \/ ~html.body THEN [raised |-> FALSE, results |-> <<>>]
    ELSE IF parsed.raised THEN parsed
    ELSE WithSource(parsed, label)

\* scrapers/html_sources.py
fetch_tvbeurope_headlines(url, limit, deps_available, response, page) ==
    ScraperResult(deps_available, fetch_html(response),
                  parse_anchors(page, url, TVBE_SELECTORS, limit), "TVBEurope")

fetch_ncs_digital_headlines(url, limit, deps_available, response, page) ==
    ScraperResult(deps_available, fetch_html(response),
                  parse_anchors(page, url, NCS_SELECTORS, limit), "NCS Digital")

\* html_sources.py
fetch_tvbeurope_headlines2(url, limit, deps_available, response, page) ==
    ScraperResult(deps_available, fetch_html(response),
                  parse_anchors2(page, url, TVBE_SELECTORS, limit), "TVBEurope")

fetch_ncs_digital_headlines2(url, limit, deps_available, response, page) ==
    ScraperResult(deps_available, fetch_html(response),
                  parse_anchors2(page, url, NCS_SELECTORS, limit), "NCS Digital")

-----------------------------------------------------------------------------
(* The scrapers applied to bounded pages *)

MaxAnchors == 2

MaxLimit == 2

BaseUrl == "https://example.com/"

\* anchors a page is built from: headlines with short, long, empty and
\* upper-case text, and hrefs that are relative, absolute, the homepage, a
\* mail address, a fragment and a malformed network location
Anchors ==
    {[text |-> "First Story", href |-> "/story/1"],
     [text |-> "A long enough headline", href |-> "/story/2"],
     [text |-> " Another long headline ", href |-> "https://example.com/page"],
     [text |-> " ", href |-> "/story/3"],
     [text |-> "BROADCAST NEWS TODAY", href |-> "/nav"],
     [text |-> "Contact the newsroom", href |-> "mailto:a@b.c"],
     [text |-> "Back to the homepage", href |-> "https://example.com/"],
     [text |-> "A headline with a bad href", href |-> "//[bad"],
     [text |-> "Jump to the top of the page", href |-> "#top"]}

\* hrefs _normalise_href is called with
Hrefs ==
    {a.href : a \in Anchors}
    \cup {"", "javascript:void(0)", "JavaScript:void(0)", "about:blank", "story/4",
          " /story/5 ", "//cdn.example/x"}

InitScrape ==
    /\ prog = "scrape"
    /\ pc = "build"
    /\ input = [page |-> [article |-> <<>>, plain |-> <<>>], limit |-> 0, href |-> "",
                scraper |-> "", deps_available |-> TRUE, response |-> CHOOSE r \in Responses : TRUE]
    /\ output = <<>>
    /\ output2 = <<>>
    /\ news = NoFile
    /\ archive = NoFile
    /\ tmp = NoFile
    /\ news0 = NoFile
    /\ archive0 = NoFile
    /\ feed_idx = 0
    /\ all_items = <<>>
    /\ balanced_items = <<>>
    /\ validation_passed = FALSE
    /\ outcome = "running"
    /\ existing_news = <<>>
    /\ fetched = <<>>
    /\ clock = 0
    /\ runs = 0
    /\ fetch_log = <<>>

\* the site adds a headline inside <article>
AddArticleAnchor ==
    /\ prog = "scrape" /\ pc = "build"
    /\ Len(input.page.article) < MaxAnchors
    /\ \E a \in Anchors : input' = [input EXCEPT !.page.article = Append(@, a)]
    /\ UNCHANGED <<prog, pc, output, output2, fsvars, histvars, mainvars, rssvars, fetch_log>>

\* the site adds a headline outside <article>
AddPlainAnchor ==
    /\ prog = "scrape" /\ pc = "build"
    /\ input.page.plain = <<>>
    /\ input' = [input EXCEPT !.page.plain =
                    <<[text |-> "A plain long headline", href |-> "/plain/1"]>>]
    /\ UNCHANGED <<prog, pc, output, output2, fsvars, histvars, mainvars, rssvars, fetch_log>>

\* _normalise_href(href, base) of both files
CallNormaliseHref ==
    /\ prog = "scrape" /\ pc = "build"
    /\ input.page = [article |-> <<>>, plain |-> <<>>]
    /\ \E href \in Hrefs :
         /\ input' = [input EXCEPT !.href = href]
         /\ output' = normalise_href(href, BaseUrl)
         /\ output2' = normalise_href2(href, BaseUrl)
    /\ pc' = "normalised"
    /\ UNCHANGED <<prog, fsvars, histvars, mainvars, rssvars, fetch_log>>

\* _parse_anchors(html, base_url, selectors, limit) of both files
CallParseAnchors ==
    /\ prog = "scrape" /\ pc = "build"
    /\ \E limit \in 0..MaxLimit :
         /\ input' = [input EXCEPT !.limit = limit]
         /\ output' = parse_anchors(input.page, BaseUrl, <<"article h2 a", "h2 a">>, limit)
         /\ output2' = parse_anchors2(input.page, BaseUrl, <<"article h2 a", "h2 a">>, limit)
    /\ pc' = "parsed"
    /\ UNCHANGED <<prog, fsvars, histvars, mainvars, rssvars, fetch_log>>

\* fetch_tvbeurope_headlines(url, limit) of both files
CallTvbeurope ==
    /\ prog = "scrape" /\ pc = "build"
    /\ \E limit \in 1..MaxLimit, deps_available \in BOOLEAN, response \in Responses :
         /\ input' = [input EXCEPT !.limit = limit, !.scraper = "TVBEurope",
                                   !.deps_available = deps_available, !.response = response]
         /\ output' = fetch_tvbeurope_headlines(BaseUrl, limit, deps_available, response,
                                                input.page)
         /\ output2' = fetch_tvbeurope_headlines2(BaseUrl, limit, deps_available, response,
                                                  input.page)
    /\ pc' = "scraped"
    /\ UNCHANGED <<prog, fsvars, histvars, mainvars, rssvars, fetch_log>>

\* fetch_ncs_digital_headlines(url, limit) of both files
CallNcsDigital ==
    /\ prog = "scrape" /\ pc = "build"
    /\ \E limit \in 1..MaxLimit, deps_available \in BOOLEAN, response \in Responses :
         /\ input' = [input EXCEPT !.limit = limit, !.scraper = "NCS Digital",
                                   !.deps_available = deps_available, !.response = response]
         /\ output' = fetch_ncs_digital_headlines(BaseUrl, limit, deps_available, response,
                                                  input.page)
         /\ output2' = fetch_ncs_digital_headlines2(BaseUrl, limit, deps_available, response,
                                                    input.page)
    /\ pc' = "scraped"
    /\ UNCHANGED <<prog, fsvars, histvars, mainvars, rssvars, fetch_log>>

NextScrape ==
    \/ AddArticleAnchor
    \/ AddPlainAnchor
    \/ CallNormaliseHref
    \/ CallParseAnchors
    \/ CallTvbeurope
    \/ CallNcsDigital

SpecScrape == InitScrape /\ [][NextScrape]_vars

-----------------------------------------------------------------------------
(* Claims about the scrapers *)

Parsed == prog = "scrape" /\ pc = "parsed"

Scraped == prog = "scrape" /\ pc = "scraped"

Normalised == prog = "scrape" /\ pc = "normalised"

\* an anchor with non-empty text and a href that resolves to a URL
Headline(anchor) ==
    /\ StripText(anchor.text) # ""
    /\ ~normalise_href(anchor.href, BaseUrl).raised
    /\ normalise_href(anchor.href, BaseUrl).url # ""

\* one item per headline of the first selector that has one, cut to limit
ExpectedAnchors(page, selectors, limit) ==
    LET hits == {k \in 1..Len(selectors) :
                    \E i \in 1..Len(Select(page, selectors[k])) :
                        Headline(Select(page, selectors[k])[i])}
        first == CHOOSE k \in hits : \A m \in hits : k <= m
        headlines == SelectSeq(Select(page, selectors[first]), Headline)
    IN  IF hits = {} THEN <<>>
        ELSE Take([i \in 1..Len(headlines) |->
                      AnchorItem(StripText(headlines[i].text),
                                 normalise_href(headlines[i].href, BaseUrl).url, Now)], limit)

\* C23: for every page and every limit >= 0, _parse_anchors returns one item
\* per anchor with non-empty text and a resolvable href of the first selector
\* that has such an anchor, in document order and cut to limit items, each with
\* guid = link and no image; [] when no selector has such an anchor.
C23_ParseAnchorsResult ==
    Parsed =>
        /\ output = [raised |-> FALSE,
                     results |-> ExpectedAnchors(input.page, <<"article h2 a", "h2 a">>,
                                                 input.limit)]
        /\ output2 = output

\* C24: every call of fetch_tvbeurope_headlines and fetch_ncs_digital_headlines
\* ends in a list and raises nothing; the list is empty when the dependencies
\* are missing, when the page fetch fails and when no heading of the page has
\* an anchor that is a headline.
C24_ScrapersNeverRaise ==
    Scraped =>
        /\ ~output.raised /\ ~output2.raised
        /\ (\/ ~input.deps_available
            \/ fetch_html(input.response).none
            \/ input.page = [article |-> <<>>, plain |-> <<>>])
              => (output.results = <<>> /\ output2.results = <<>>)

\* C25: every item the scrapers return has a non-empty title, the scraper's
\* source label and a link starting with "http"; _normalise_href returns the
\* empty string or a string starting with "http" for every href.
C25_ScrapedLinksAreHttp ==
    /\ Scraped =>
         \A r \in {output, output2} : \A i \in 1..Len(r.results) :
            /\ r.results[i].title # ""
            /\ r.results[i].source = input.scraper
            /\ StartsWith(r.results[i].link, "http")
    /\ Normalised =>
         \A r \in {output, output2} :
            ~r.raised /\ (r.url = "" \/ StartsWith(r.url, "http"))

-----------------------------------------------------------------------------
(* Claims about the low-priority cap of fetch.py.py *)

\* the guids of the input items flagged _low_priority
FlaggedGuids(items) == {items[i].guid : i \in {k \in 1..Len(items) : items[k].lp}}

\* C26: balance_categories of fetch.py.py returns, per category and per
\* source, at most MAX_ITEMS_LOW_PRIORITY of the items that were flagged
\* _low_priority in its input.
C26_LowPriorityCap ==
    Applied =>
        \A i \in 1..Len(output2) :
            Cardinality({k \in 1..Len(output2) :
                            /\ output2[k].category = output2[i].category
                            /\ output2[k].source = output2[i].source
                            /\ output2[k].guid \in FlaggedGuids(input)})
                <= MAX_ITEMS_LOW_PRIORITY

-----------------------------------------------------------------------------
(* Claims about the availability of news.json during fetch.py main() *)

\* C28: when news.json exists at the start of a run, it exists in every state
\* of the run and holds a complete dataset, the previous one or the new one.
C28_ContinuousAvailability ==
    (prog = "fetch" /\ news0.exists) =>
        /\ news.exists /\ news.complete
        /\ news.items = news0.items \/ news.items = balanced_items

-----------------------------------------------------------------------------
(* fetch_rss.py: runs that follow an archiving run *)

\* the item an earlier run on day 1 published for the first <item> of the
\* first source
ArchivedItem ==
    OverrideSource(
        parse_rss_feed([kind |-> "rss", title |-> "Feed", entries |-> <<RssRawItem(1, 1)>>],
                       SourceList[1].category, ParseTime(1, 1)),
        SourceList[1].label)[1]

\* the files after two earlier runs: the first published ArchivedItem, the
\* second, more than ARCHIVE_DAYS later, fetched nothing and archived it
InitArchived ==
    /\ prog = "rss"
    /\ pc = "idle"
    /\ news = CompleteFile(<<>>)
    /\ archive = CompleteFile(<<ArchivedItem>>)
    /\ tmp = NoFile
    /\ news0 = NoFile
    /\ archive0 = NoFile
    /\ feed_idx = 0
    /\ all_items = <<>>
    /\ balanced_items = <<>>
    /\ validation_passed = FALSE
    /\ outcome = "running"
    /\ input = <<>>
    /\ output = <<>>
    /\ output2 = <<>>
    /\ existing_news = <<>>
    /\ fetched = <<>>
    /\ clock = ARCHIVE_DAYS + 2
    /\ runs = 0
    /\ fetch_log = <<>>

SpecArchive == InitArchived /\ [][NextRss]_vars

\* SpecRss reaches the files InitArchived starts from
ArchivedFilesNotReached ==
    ~(prog = "rss" /\ pc = "end" /\ news = CompleteFile(<<>>)
      /\ archive = CompleteFile(<<ArchivedItem>>) /\ clock = ARCHIVE_DAYS + 2)

\* C29: after every run of fetch_all_feeds no guid is in both news.json and
\* archive.json (an archived item does not come back into news.json).
C29_NewsArchiveDisjoint ==
    (prog = "rss" /\ pc = "end" /\ outcome = "saved") =>
        GuidsOf(load_json(news)) \cap GuidsOf(load_json(archive)) = {}

-----------------------------------------------------------------------------
(* Claims about articles fetched under several categories by fetch.py main() *)

\* the categories under which main() collected an item of guid g
FetchedUnder(g) == {all_items[i].category : i \in {k \in 1..Len(all_items) : all_items[k].guid = g}}

\* the guids collected under more than one category
CrossListed == {g \in GuidsOf(all_items) : g # "" /\ Cardinality(FetchedUnder(g)) > 1}

\* the category of the first item of guid g that main() collected: the
\* category that comes first in FEED_GROUPS among those that delivered g
FirstCategory(g) ==
    all_items[CHOOSE i \in 1..Len(all_items) :
                 /\ all_items[i].guid = g
                 /\ \A j \in 1..(i - 1) : all_items[j].guid # g].category

\* no cap of balance_categories dropped an item
NoCapBinds == Len(balanced_items) = Len(deduplicate_by_guid(all_items))

\* C30 (as claimed): an article fetched under several categories in one run is
\* in the balanced dataset exactly once, under the first of these categories.
C30_CrossCategoryExactlyOnce ==
    (prog = "fetch" /\ pc # "fetch") =>
        \A g \in CrossListed :
            /\ CountGuid(balanced_items, g) = 1
            /\ \A i \in 1..Len(balanced_items) :
                 balanced_items[i].guid = g => balanced_items[i].category = FirstCategory(g)

\* C30 (amended): an article fetched under several categories in one run is in
\* the balanced dataset at most once, and exactly once when no cap drops an
\* item; when it is there it carries the first of these categories, so
\* validate_news_data counts it for that category and for no other.
C30_CrossCategoryDedup ==
    (prog = "fetch" /\ pc # "fetch") =>
        \A g \in CrossListed :
            /\ CountGuid(balanced_items, g) <= 1
            /\ NoCapBinds => CountGuid(balanced_items, g) = 1
            /\ \A i \in 1..Len(balanced_items) :
                 balanced_items[i].guid = g => balanced_items[i].category = FirstCategory(g)
            /\ \A cat \in FetchedUnder(g) \ {FirstCategory(g)} :
                 CategoryCount(balanced_items, cat)
                    = CategoryCount(SelectSeq(balanced_items, LAMBDA x : x.guid # g), cat)

\* a run that saved a dataset holding a cross-listed article once
C30_Witness ==
    /\ RunEnded /\ outcome = "saved"
    /\ \E g \in CrossListed :
         /\ CountGuid(news.items, g) = 1
         /\ Cardinality(FetchedUnder(g)) = 2

====
